---------------------------- MODULE Spec2Model ----------------------------
(***************************************************************************)
(* A model of the vector diagram library: the SVG export pipeline          *)
(* (flattenSVG, embedMarkers, bundle, download: src/src/util/svg.ts), the  *)
(* typeset-label matcher (TeX.findSubtreeMatches, TeX.setColor:            *)
(* src/src/elements/tex.ts) and the dependency-driven update closures of   *)
(* CoordinateSystem (src/unnamed/part_000).                                *)
(*                                                                         *)
(* DOM elements are records; an element's identity inside a tree is its    *)
(* path, the sequence of child indices leading to it from the root.        *)
(* An absent attribute (getAttribute returning null) is the value NoAttr.   *)
(* Numbers are integers: plot coordinates in tenths of a grid unit, frame  *)
(* coordinates in pixels, the coordinates of an exported drawing in tenths *)
(* of a pixel, cosines and sines in thousandths; findLineEndpoints works   *)
(* on exact fractions.                                                     *)
(***************************************************************************)
EXTENDS Integers, Sequences, FiniteSets, TLC

VARIABLES
    doc,        \* flatten: the SVG tree flattenSVG works on
    docPrev,    \* flatten: the tree as it was before the last flattenSVG call
    flatCalls,  \* flatten: number of flattenSVG calls made so far
    rendered,   \* TeX: the math node of this.rendered, a typeset tree
    texFill,    \* TeX: style.fill of every element of the typeset tree, by path
    texCall,    \* TeX: the setColor call that has just returned or thrown
    scene,      \* graph: the composition function called, and its options
    points,     \* graph: the two points the scene is built on
    gNode,      \* graph: the geometry of the node built on the points
    gDep,       \* graph: the geometry of the node built on that node
    gLast,      \* graph: the last two things the caller did
    expFn,      \* export: the function called, bundle or download
    expRoot,    \* export: the drawing it is called on
    expSvg,     \* export: inlineSvg, the copy it works on
    expInline,  \* export: inlineSvg as createInlineStyledSvg returned it
    expPc,      \* export: the statement of its body it runs next
    expLog,     \* export: the calls it has made, in order
    expOut,     \* export: what it returned or saved, or that it raised
    lblInner,   \* label: the children of the label's inner group, in order
    lblRendered, \* label: this.rendered, the label's current typeset tree
    lblSerial,  \* label: number of trees and rectangles created so far
    lblLast,    \* label: the call that has just returned or raised
    input,      \* call: the arguments a function is called with
    output      \* call: what the call left or returned

flatVars == <<doc, docPrev, flatCalls>>
texVars == <<rendered, texFill, texCall>>
graphVars == <<scene, points, gNode, gDep, gLast>>
exportVars == <<expFn, expRoot, expSvg, expInline, expPc, expLog, expOut>>
labelVars == <<lblInner, lblRendered, lblSerial, lblLast>>
callVars == <<input, output>>

vars == <<doc, docPrev, flatCalls, rendered, texFill, texCall,
          scene, points, gNode, gDep, gLast,
          expFn, expRoot, expSvg, expInline, expPc, expLog, expOut,
          lblInner, lblRendered, lblSerial, lblLast, input, output>>

-----------------------------------------------------------------------------
(* Bounds *)

\* number of elements below the root of a generated SVG document
MaxDocNodes == 3

\* number of successive flattenSVG calls on one document
MaxFlatten == 2

\* number of elements below the math node of a generated typeset tree
MaxTexNodes == 2

\* the match indices passed to setColor range over -1..MaxIndex
MaxIndex == 2

\* the coordinates of a point range over -1..MaxCoord grid units
MaxCoord == 1

\* number of elements at the root of an exported drawing
MaxExportNodes == 3

\* the serial numbers of a label's trees and rectangles range over 1..MaxLabelSerial
MaxLabelSerial == 6

\* number of elements below the root of a drawing whose styles are inlined
MaxStyleNodes == 2

\* the length of a marked line ranges over 0..MaxLineLength pixels
MaxLineLength == 10

\* the components of a direction vector range over -MaxVector..MaxVector
MaxVector == 2

\* the width and the height of a viewport range over 0..MaxExtent
MaxExtent == 3

\* the largest coordinate of a point that defines a line
MaxPoint == 2

-----------------------------------------------------------------------------
(* The parts a specification leaves alone *)

LabelIdle ==
    /\ lblInner = <<>>
    /\ lblRendered = 0
    /\ lblSerial = 0
    /\ lblLast = [op |-> "none", threw |-> FALSE, old |-> 0, new |-> 0]

CallIdle ==
    /\ input = [fn |-> "none"]
    /\ output = [done |-> FALSE]

-----------------------------------------------------------------------------
(* DOM *)

NoAttr == "null"

\* no transform attribute
NoTransform == [translate |-> <<>>, rotate |-> <<>>, scale |-> 0]

\* An SVG element.  href is the value of `xlink:href || href`; ms and me are
\* the marker-start and marker-end attributes; geo holds the numeric
\* attributes (line: x1,y1,x2,y2; path: the coordinate pairs of d; marker:
\* refX,refY); tf is the transform written by embedMarkers and tfMore the
\* transform functions written after it.  attr holds the presentation
\* attributes and style the inline style, as sets of <<property, value>>;
\* sheet holds what the page's style sheets declare for the element; class
\* is its classList and ctm the a, b, c, d of its getScreenCTM().
El(tag, id, href, kids) ==
    [tag |-> tag, id |-> id, href |-> href, ms |-> NoAttr, me |-> NoAttr,
     geo |-> <<>>, tf |-> NoTransform, tfMore |-> <<>>,
     attr |-> {}, style |-> {}, sheet |-> {}, class |-> {},
     ctm |-> <<1, 0, 0, 1>>, kids |-> kids]

\* A declaration block, or an element's attributes, as <<name, value>> pairs
Decl(decls, p) ==
    IF \E d \in decls : d[1] = p
    THEN (CHOOSE d \in decls : d[1] = p)[2]
    ELSE NoAttr

SetDecl(decls, p, v) == {d \in decls : d[1] # p} \cup {<<p, v>>}

RemoveDecl(decls, p) == {d \in decls : d[1] # p}

RECURSIVE NodeAt(_, _)
NodeAt(n, p) ==
    IF p = <<>> THEN n ELSE NodeAt(n.kids[Head(p)], Tail(p))

RECURSIVE ReplaceAt(_, _, _)
ReplaceAt(n, p, new) ==
    IF p = <<>> THEN new
    ELSE [n EXCEPT !.kids[Head(p)] = ReplaceAt(@, Tail(p), new)]

RemoveIdx(s, i) == SubSeq(s, 1, i - 1) \o SubSeq(s, i + 1, Len(s))

RECURSIVE RemoveAt(_, _)
RemoveAt(n, p) ==
    IF Len(p) = 1 THEN [n EXCEPT !.kids = RemoveIdx(@, p[1])]
    ELSE [n EXCEPT !.kids[Head(p)] = RemoveAt(@, Tail(p))]

PrefixAll(i, ps) == [k \in 1..Len(ps) |-> <<i>> \o ps[k]]

\* The descendants of n in document order (n itself excluded), as paths:
\* the order querySelectorAll and querySelector walk the tree in.
RECURSIVE DescPaths(_)
RECURSIVE KidPaths(_, _)
DescPaths(n) == KidPaths(n, 1)
KidPaths(n, i) ==
    IF i > Len(n.kids) THEN <<>>
    ELSE <<(<<i>>)>> \o PrefixAll(i, DescPaths(n.kids[i])) \o KidPaths(n, i + 1)

\* svgElement.querySelectorAll(tag)
QuerySelectorAllTag(svg, tag) ==
    LET IsTag(p) == NodeAt(svg, p).tag = tag
    IN  SelectSeq(DescPaths(svg), IsTag)

\* svgElement.querySelector('#' + id): <<path>> of the first match, <<>> for null
QuerySelectorId(svg, id) ==
    LET HasId(p) == NodeAt(svg, p).id = id
        hits == SelectSeq(DescPaths(svg), HasId)
    IN  IF hits = <<>> THEN <<>> ELSE <<Head(hits)>>

-----------------------------------------------------------------------------
(* flattenSVG *)

\* The clone of the <use> target with the attributes of the <use> set on it:
\* every attribute the <use> carries except href / xlink:href.
CopyUseAttributes(useEl, clone) ==
    LET hasTransform == useEl.tf # NoTransform \/ useEl.tfMore # <<>>
    IN  [clone EXCEPT !.id = IF useEl.id # NoAttr THEN useEl.id ELSE @,
                      !.ms = IF useEl.ms # NoAttr THEN useEl.ms ELSE @,
                      !.me = IF useEl.me # NoAttr THEN useEl.me ELSE @,
                      !.tf = IF hasTransform THEN useEl.tf ELSE @,
                      !.tfMore = IF hasTransform THEN useEl.tfMore ELSE @,
                      !.attr = {d \in @ : Decl(useEl.attr, d[1]) = NoAttr}
                               \cup useEl.attr,
                      !.style = IF useEl.style # {} THEN useEl.style ELSE @,
                      !.class = IF useEl.class # {} THEN useEl.class ELSE @]

\* The body of useElements.forEach for the <use> at path p.
ReplaceUse(svg, p) ==
    LET useEl == NodeAt(svg, p)
    IN  IF useEl.href = NoAttr \/ useEl.href = "" THEN svg
        ELSE LET hit == QuerySelectorId(svg, useEl.href)
             IN  IF hit = <<>> THEN svg
                 ELSE ReplaceAt(svg, p, CopyUseAttributes(useEl, NodeAt(svg, hit[1])))

RECURSIVE ReplaceUses(_, _)
ReplaceUses(svg, uses) ==
    IF uses = <<>> THEN svg
    ELSE ReplaceUses(ReplaceUse(svg, Head(uses)), Tail(uses))

\* svgElement.querySelector('defs')?.remove()
RemoveDefs(svg) ==
    LET defs == QuerySelectorAllTag(svg, "defs")
    IN  IF defs = <<>> THEN svg ELSE RemoveAt(svg, Head(defs))

\* The <use> elements are collected once, before any replacement; a
\* replacement keeps the position of every other element, so the collected
\* paths keep naming the collected elements.
flattenSVG(svg) ==
    RemoveDefs(ReplaceUses(svg, QuerySelectorAllTag(svg, "use")))

-----------------------------------------------------------------------------
(* Generated trees *)

\* Forests(n, Lv, Ct): every sequence of trees with n nodes in all, whose
\* childless nodes are drawn from Lv \cup Ct and whose inner nodes from Ct.
RECURSIVE Forests(_, _, _)
RECURSIVE TreesOfSize(_, _, _)
Forests(n, Lv, Ct) ==
    IF n = 0 THEN {<<>>}
    ELSE UNION { { <<t>> \o rest : t \in TreesOfSize(k, Lv, Ct),
                                   rest \in Forests(n - k, Lv, Ct) } : k \in 1..n }
TreesOfSize(k, Lv, Ct) ==
    IF k = 1 THEN Lv \cup Ct
    ELSE { [c EXCEPT !.kids = f] : c \in Ct, f \in Forests(k - 1, Lv, Ct) }

ForestsUpTo(n, Lv, Ct) == UNION { Forests(k, Lv, Ct) : k \in 0..n }

FlatLeaves ==
    { El("path", "a", NoAttr, <<>>), El("path", NoAttr, NoAttr, <<>>),
      El("use", NoAttr, "a", <<>>), El("use", NoAttr, "b", <<>>),
      El("use", NoAttr, NoAttr, <<>>) }

FlatContainers ==
    { El("g", "a", NoAttr, <<>>), El("g", NoAttr, NoAttr, <<>>),
      El("defs", NoAttr, NoAttr, <<>>) }

FlattenDocs ==
    { El("svg", NoAttr, NoAttr, f) : f \in ForestsUpTo(MaxDocNodes, FlatLeaves, FlatContainers) }

-----------------------------------------------------------------------------
(* Typeset trees and TeX.findSubtreeMatches *)

\* An element of MathJax's SVG output: mml is data-mml-node, c is data-c.
TNode(tag, mml, c, kids) == [tag |-> tag, mml |-> mml, c |-> c, kids |-> kids]

RangeOf(s) == { s[i] : i \in 1..Len(s) }

RECURSIVE nodeMatches(_, _)
nodeMatches(node, subtreeNode) ==
    IF node.tag # subtreeNode.tag THEN FALSE
    ELSE IF node.mml # subtreeNode.mml THEN FALSE
    ELSE IF node.c # NoAttr /\ node.c # subtreeNode.c THEN FALSE
    ELSE IF Len(node.kids) # Len(subtreeNode.kids) THEN FALSE
    ELSE \A i \in 1..Len(node.kids) : nodeMatches(node.kids[i], subtreeNode.kids[i])

RunLength_FirstSiblingOnly(kids, i, candKids, j) ==
    IF j <= Len(candKids) /\ i <= Len(kids) /\ nodeMatches(kids[i], candKids[j])
    THEN 1 ELSE 0

\* The while loop of traverse: the number of successive siblings, from
\* position i of kids on, that match the candidate's children from the
\* first on, one by one, until one of the two runs out or a pair differs.
RECURSIVE RunLength(_, _, _, _)
RunLength(kids, i, candKids, j) ==
    IF j <= Len(candKids) /\ i <= Len(kids) /\ nodeMatches(kids[i], candKids[j])
    THEN 1 + RunLength(kids, i + 1, candKids, j + 1)
    ELSE 0

LastMatchIsLastChild_AnyRun(m, subtree) == m >= 1

\* lastMatch === subtree.lastChild, for a run of m matched children:
\* lastMatch is the m-th child of the candidate, or null when m = 0, and
\* lastChild is the candidate's last child, or null when it has none.
LastMatchIsLastChild(m, subtree) == m = Len(subtree.kids)

\* What the first forEach of traverse pushes for child i of the node at path p.
ChildMatches(node, p, i, subtree) ==
    LET m == RunLength(node.kids, i, subtree.kids, 1)
        potentialMatch == [k \in 1..m |-> p \o <<i + k - 1>>]
    IN  (IF nodeMatches(node.kids[i], subtree) THEN <<(<<p \o <<i>>>>)>> ELSE <<>>)
        \o (IF LastMatchIsLastChild(m, subtree) THEN <<potentialMatch>> ELSE <<>>)

RECURSIVE traverse(_, _, _)
RECURSIVE ForEachChildMatch(_, _, _, _)
RECURSIVE ForEachChildTraverse(_, _, _, _)
ForEachChildMatch(node, p, i, subtree) ==
    IF i > Len(node.kids) THEN <<>>
    ELSE ChildMatches(node, p, i, subtree) \o ForEachChildMatch(node, p, i + 1, subtree)
ForEachChildTraverse(node, p, i, subtree) ==
    IF i > Len(node.kids) THEN <<>>
    ELSE traverse(node.kids[i], p \o <<i>>, subtree)
         \o ForEachChildTraverse(node, p, i + 1, subtree)
traverse(node, p, subtree) ==
    ForEachChildMatch(node, p, 1, subtree) \o ForEachChildTraverse(node, p, 1, subtree)

\* The matches in the order they are pushed; a match is the sequence of the
\* paths of its elements in root.
findSubtreeMatches(root, subtree) == traverse(root, <<>>, subtree)

\* tex2svg is opaque: match is the math node of what it typesets the string to.
getMatchesByTex(tree, match) == findSubtreeMatches(tree, match)

LookupFailure == "Found no match"
RangeFailure == "Index is out of range"
NoError == "returned"

setColor_NoLookupCheck(tree, fill, match, color, index) ==
    LET matches == getMatchesByTex(tree, match)
    IN  IF index < 0 \/ index >= Len(matches)
        THEN [err |-> RangeFailure, fill |-> fill, matches |-> matches]
        ELSE [err |-> NoError, matches |-> matches,
              fill |-> [q \in DOMAIN fill |->
                          IF q \in RangeOf(matches[index + 1]) THEN color ELSE fill[q]]]

setColor_RangeOffByOne(tree, fill, match, color, index) ==
    LET matches == getMatchesByTex(tree, match)
    IN  IF Len(matches) = 0
        THEN [err |-> LookupFailure, fill |-> fill, matches |-> matches]
        ELSE IF index < 0 \/ index > Len(matches)
        THEN [err |-> RangeFailure, fill |-> fill, matches |-> matches]
        ELSE [err |-> NoError, matches |-> matches,
              fill |-> [q \in DOMAIN fill |->
                          IF index < Len(matches) /\ q \in RangeOf(matches[index + 1])
                          THEN color ELSE fill[q]]]

\* TeX.setColor: what it throws (err) and the fills it leaves.
setColor(tree, fill, match, color, index) ==
    LET matches == getMatchesByTex(tree, match)
    IN  IF Len(matches) = 0
        THEN [err |-> LookupFailure, fill |-> fill, matches |-> matches]
        ELSE IF index < 0 \/ index >= Len(matches)
        THEN [err |-> RangeFailure, fill |-> fill, matches |-> matches]
        ELSE [err |-> NoError, matches |-> matches,
              fill |-> [q \in DOMAIN fill |->
                          IF q \in RangeOf(matches[index + 1]) THEN color ELSE fill[q]]]

MathNode == TNode("g", "math", NoAttr, <<>>)

TexLeaves ==
    { TNode("path", NoAttr, "78", <<>>), TNode("path", NoAttr, NoAttr, <<>>), MathNode }

TexContainers == { TNode("g", "mi", NoAttr, <<>>) }

TexTrees ==
    { [MathNode EXCEPT !.kids = f] : f \in ForestsUpTo(MaxTexNodes, TexLeaves, TexContainers) }

Colors == {"red"}

ElementPaths(tree) == RangeOf(DescPaths(tree)) \cup {<<>>}

NoCall == [active |-> FALSE, match |-> MathNode, color |-> "", index |-> 0,
           matches |-> <<>>, err |-> NoError, before |-> <<>>]

TexFresh ==
    /\ rendered \in TexTrees
    /\ texFill = [q \in ElementPaths(rendered) |-> ""]
    /\ texCall = NoCall

\* label.setColor(tex, color, index)
SetColor ==
    /\ ~texCall.active
    /\ \E match \in TexTrees, color \in Colors, index \in -1..MaxIndex :
         LET r == setColor(rendered, texFill, match, color, index)
         IN  /\ texFill' = r.fill
             /\ texCall' = [active |-> TRUE, match |-> match, color |-> color,
                            index |-> index, matches |-> r.matches, err |-> r.err,
                            before |-> texFill]
    /\ UNCHANGED rendered
    /\ UNCHANGED <<flatVars, graphVars, exportVars, labelVars, callVars>>

\* The caller goes on after setColor returned, or after it caught the error.
SetColorDone ==
    /\ texCall.active
    /\ texCall' = NoCall
    /\ UNCHANGED <<rendered, texFill>>
    /\ UNCHANGED <<flatVars, graphVars, exportVars, labelVars, callVars>>

NextTex == SetColor \/ SetColorDone

-----------------------------------------------------------------------------
(* Numbers *)

Abs(a) == IF a < 0 THEN -a ELSE a

Sgn(a) == IF a < 0 THEN -1 ELSE IF a > 0 THEN 1 ELSE 0

\* a / b for b > 0, rounded toward zero
TruncDiv(a, b) == Sgn(a) * (Abs(a) \div b)

RECURSIVE ISqrtIn(_, _, _)
ISqrtIn(n, lo, hi) ==
    IF lo = hi THEN lo
    ELSE LET mid == (lo + hi + 1) \div 2
         IN  IF mid * mid <= n THEN ISqrtIn(n, mid, hi) ELSE ISqrtIn(n, lo, mid - 1)

\* the integer part of the square root of n
ISqrt(n) == ISqrtIn(n, 0, 46340)

RECURSIVE Gcd(_, _)
Gcd(a, b) == IF b = 0 THEN a ELSE Gcd(b, a % b)

\* <<Math.cos(a), Math.sin(a)>> for a = Math.atan2(dy, dx), in thousandths;
\* Math.atan2(0, 0) is 0.  The direction is reduced to lowest terms first.
CosSin(dy, dx) ==
    IF dx = 0 /\ dy = 0 THEN <<1000, 0>>
    ELSE LET g == Gcd(Abs(dx), Abs(dy))
             ux == dx \div g
             uy == dy \div g
             h == ISqrt(10000 * (ux * ux + uy * uy))
         IN  <<TruncDiv(100000 * ux, h), TruncDiv(100000 * uy, h)>>

\* the cosine and sine of an angle after k quarter turns (TAU / 4) are added
RECURSIVE QuarterTurns(_, _)
QuarterTurns(cs, k) ==
    IF k = 0 THEN cs ELSE QuarterTurns(<<-cs[2], cs[1]>>, k - 1)

\* r * Math.cos(a) (or sin) in whole pixels, for a cosine c in thousandths
Scaled(r, c) == TruncDiv(r * c, 1000)

\* Exact numbers for findLineEndpoints: <<n, d>> is n / d in lowest terms
\* with d > 0; <<1, 0>> is Infinity, <<-1, 0>> is -Infinity, <<0, 0>> is NaN.
Frac(n, d) ==
    IF d = 0 THEN <<Sgn(n), 0>>
    ELSE LET g == Gcd(Abs(n), Abs(d))
         IN  <<(Sgn(d) * n) \div g, Abs(d) \div g>>

Num(n) == <<n, 1>>

Infinity == <<1, 0>>

IsNaN(a) == a = <<0, 0>>

Times(a, b) == Frac(a[1] * b[1], a[2] * b[2])

Over_ByZeroIsZero(a, b) ==
    IF b = <<0, 1>> THEN <<0, 1>> ELSE Frac(a[1] * b[2], a[2] * b[1])

Over(a, b) == Frac(a[1] * b[2], a[2] * b[1])

\* a + b and a - b, for a and b that are not both infinite
Plus(a, b) == Frac(a[1] * b[2] + b[1] * a[2], a[2] * b[2])

Minus(a, b) == Frac(a[1] * b[2] - b[1] * a[2], a[2] * b[2])

\* isFinite(a)
isFinite(a) == a[2] # 0

LessEq_Strict(a, b) ==
    /\ a[2] # 0 \/ a[1] # 0
    /\ b[2] # 0 \/ b[1] # 0
    /\ IF a[2] = 0 /\ b[2] = 0 THEN a[1] < b[1]
       ELSE a[1] * b[2] < b[1] * a[2]

LessEq_NaNCompares(a, b) ==
    IF a[2] = 0 /\ b[2] = 0 THEN a[1] <= b[1]
    ELSE a[1] * b[2] <= b[1] * a[2]

\* a <= b; false when either is NaN
LessEq(a, b) ==
    /\ ~IsNaN(a)
    /\ ~IsNaN(b)
    /\ IF a[2] = 0 /\ b[2] = 0 THEN a[1] <= b[1]
       ELSE a[1] * b[2] <= b[1] * a[2]

-----------------------------------------------------------------------------
(* The plot of CoordinateSystem *)

\* config.width and config.height, in pixels
PlotWidth == 640

PlotHeight == 360

\* config.gridWidth (12.8) and config.gridHeight (7.2).  Plot coordinates
\* are carried in tenths of a grid unit.
GridWidth == 128

GridHeight == 72

internalX == -(GridWidth \div 2)

internalY == -(GridHeight \div 2)

Pt(x, y) == [x |-> x, y |-> y]

\* plot.SVGToRelative: plot coordinates to frame pixels.  The plot spans
\* internalX .. internalX + internalWidth over 0 .. width, its y axis
\* pointing up.
SVGToRelative(x, y) ==
    Pt(((x - internalX) * PlotWidth) \div GridWidth,
       PlotHeight - ((y - internalY) * PlotHeight) \div GridHeight)

\* plot.SVGToRelative on exact numbers
SVGToRelativeFrac(x, y) ==
    Pt(Times(Minus(x, Num(internalX)), Frac(PlotWidth, GridWidth)),
       Minus(Num(PlotHeight),
             Times(Minus(y, Num(internalY)), Frac(PlotHeight, GridHeight))))

-----------------------------------------------------------------------------
(* TeX geometry: src/src/elements/tex.ts *)

\* getBoundingClientRect() of the rendered expression
BBox == [width |-> 20, height |-> 10]

\* new TeX(s, x, y): the inner group carries scale(1), then moveTo(x, y)
TexAt(x, y) ==
    [x |-> x, y |-> y, transform |-> <<x, y>>, scale |-> 1,
     inner |-> [translate |-> <<>>, scale |-> 1]]

moveTo(t, x, y) == [t EXCEPT !.x = x, !.y = y, !.transform = <<x, y>>]

shift(t, x, y) == moveTo(t, t.x + x, t.y + y)

alignCenter(t) ==
    [t EXCEPT !.inner = [translate |-> <<-(BBox.width \div 2), -(BBox.height \div 2)>>,
                         scale |-> t.scale]]

-----------------------------------------------------------------------------
(* The update closures of CoordinateSystem: src/unnamed/part_000 *)

\* this.frame.line(0, 0, 0, 0)
Line0 == [x1 |-> 0, y1 |-> 0, x2 |-> 0, y2 |-> 0]

\* the default radius r of vectorTipLabel
TipRadius == 24

\* the default buff of the brace labels
BraceBuff == 42

\* refX and refY of the arrowhead glyph
ArrowRefX == 6

ArrowRefY == 5

\* the stroke-width controlLine sets on its path (1.5) and the scale of
\* arrow() (1.25), in hundredths
PathArrowScale == 150

ArrowScale == 125

\* `M 0 0.5 L 6 5 L 0 9.5 `, the points in tenths
ArrowGlyph == <<Pt(0, 5), Pt(60, 50), Pt(0, 95)>>

vector_update(v, p1, p2) ==
    LET fp1 == SVGToRelative(p1.x, p1.y)
        fp2 == SVGToRelative(p2.x, p2.y)
    IN  [v EXCEPT !.x1 = fp1.x, !.y1 = fp1.y, !.x2 = fp2.x, !.y2 = fp2.y]

line_update_KeepsSecondEnd(v, p1, p2) ==
    LET fp1 == SVGToRelative(p1.x, p1.y)
    IN  [v EXCEPT !.x1 = fp1.x, !.y1 = fp1.y]

line_update(v, p1, p2) ==
    LET fp1 == SVGToRelative(p1.x, p1.y)
        fp2 == SVGToRelative(p2.x, p2.y)
    IN  [v EXCEPT !.x1 = fp1.x, !.y1 = fp1.y, !.x2 = fp2.x, !.y2 = fp2.y]

lineBetweenPoints_update(line, p1, p2) ==
    LET fp1 == SVGToRelative(p1.x, p1.y)
        fp2 == SVGToRelative(p2.x, p2.y)
    IN  [line EXCEPT !.x1 = fp1.x, !.y1 = fp1.y, !.x2 = fp2.x, !.y2 = fp2.y]

arrow_update(v, start, end) ==
    LET fp1 == SVGToRelative(start.x, start.y)
        fp2 == SVGToRelative(end.x, end.y)
    IN  [v EXCEPT !.x1 = fp1.x, !.y1 = fp1.y, !.x2 = fp2.x, !.y2 = fp2.y]

\* translate(adjustedX, adjustedY) rotate(angle) scale(scale) for an
\* arrowhead whose tip is at (x, y); angle is kept as <<cos, sin>>.
ArrowTransform(x, y, angle, scale) ==
    [translate |-> <<x + TruncDiv(- ArrowRefX * scale * angle[1]
                                  + ArrowRefY * scale * angle[2], 100000),
                     y + TruncDiv(- ArrowRefX * scale * angle[2]
                                  - ArrowRefY * scale * angle[1], 100000)>>,
     rotate |-> angle,
     scale |-> scale]

\* The arrowhead path arrow() creates; no update closure writes it again.
arrow_head(start, end) ==
    LET p1 == SVGToRelative(start.x, start.y)
        p2 == SVGToRelative(end.x, end.y)
        angle == CosSin(p2.y - p1.y, p2.x - p1.x)
    IN  [d |-> ArrowGlyph, transform |-> ArrowTransform(p2.x, p2.y, angle, ArrowScale)]

addlabel_update_EndOfLine(l, line) == moveTo(l, line.x2, line.y2)

addlabel_update(l, line) ==
    moveTo(l, line.x1 + (line.x2 - line.x1) \div 2,
              line.y1 + (line.y2 - line.y1) \div 2)

vectorTipLabel_update_NoMoveTo(t, point, offset, r) ==
    LET angle == QuarterTurns(CosSin(point.y, point.x), offset)
    IN  shift(alignCenter(t), Scaled(r, angle[1]), - Scaled(r, angle[2]))

\* offset is a number of quarter turns
vectorTipLabel_update(t, point, offset, r) ==
    LET x == point.x
        y == point.y
        angle == QuarterTurns(CosSin(y, x), offset)
        p == SVGToRelative(x, y)
    IN  shift(alignCenter(moveTo(t, p.x, p.y)),
              Scaled(r, angle[1]), - Scaled(r, angle[2]))

brace_update(l, p1, p2, reverse) ==
    LET mx == p1.x + (p2.x - p1.x) \div 2
        my == p1.y + (p2.y - p1.y) \div 2
        p == SVGToRelative(mx, my)
        a == QuarterTurns(CosSin(p2.y - p1.y, p2.x - p1.x),
                          1 + (IF reverse THEN 2 ELSE 0))
        buff == BraceBuff
    IN  moveTo(l, p.x - Scaled(buff, a[1]), p.y + Scaled(buff, a[2]))

braceLabel2_update(l, p1, p2, reverse, buff) ==
    LET mx == p1.x + (p2.x - p1.x) \div 2
        my == p1.y + (p2.y - p1.y) \div 2
        p == SVGToRelative(mx, my)
        a == QuarterTurns(CosSin(p2.y - p1.y, p2.x - p1.x),
                          1 + (IF reverse THEN 2 ELSE 0))
    IN  moveTo(l, p.x - Scaled(buff, a[1]), p.y + Scaled(buff, a[2]))

braceLabel_update(l, p1, p2, reverse, buff) ==
    LET mx == p1.x + (p2.x - p1.x) \div 2
        my == p1.y + (p2.y - p1.y) \div 2
        p == SVGToRelative(mx, my)
        a == QuarterTurns(CosSin(p2.y - p1.y, p2.x - p1.x),
                          1 + (IF reverse THEN 2 ELSE 0))
    IN  moveTo(l, p.x - Scaled(buff, a[1]), p.y + Scaled(buff, a[2]))

\* this.frame.path(``)
Path0 == [d |-> <<>>, transform |-> NoTransform]

\* p.d = `M c0 L c1`: d is kept as the two points of the segment
controlLine_update(p, c0, c1) == [p EXCEPT !.d = <<c0, c1>>]

\* For the straight segment `M c0 L c1`, getPointAtLength(length) is c1 and
\* getPointAtLength(length - refX) lies on the segment (at c0 when the
\* segment is shorter than refX), so p2 - p1 has the direction of c1 - c0,
\* and is zero when c0 = c1.
pathArrow_update(a, path, scale) ==
    LET p2 == path.d[2]
        angle == CosSin(path.d[2].y - path.d[1].y, path.d[2].x - path.d[1].x)
    IN  [a EXCEPT !.d = ArrowGlyph,
                  !.transform = ArrowTransform(p2.x, p2.y, angle, scale)]

\* potentialEndpoints.sort((a, b) => a[0] - b[0] || a[1] - b[1]): a comes
\* before b.  The points compared are finite.
ComesBefore(a, b) ==
    IF a[1] # b[1] THEN LessEq(a[1], b[1]) ELSE LessEq(a[2], b[2])

SortEndpoints_Unsorted(s) == s

RECURSIVE SortEndpoints(_)
SortEndpoints(s) ==
    IF Len(s) <= 1 THEN s
    ELSE LET rest == SortEndpoints(Tail(s))
             k == Cardinality({ i \in 1..Len(rest) : ~ComesBefore(Head(s), rest[i]) })
         IN  SubSeq(rest, 1, k) \o <<Head(s)>> \o SubSeq(rest, k + 1, Len(rest))

\* v and the viewport are whole numbers (of tenths of a grid unit); the
\* points returned are pairs of exact numbers.
findLineEndpoints(v, minX, minY, width, height) ==
    LET x == v.x
        y == v.y
        slope == IF x # 0 THEN Over(Num(y), Num(x)) ELSE Infinity
        leftIntersectionY == Times(slope, Num(minX))
        rightIntersectionY == Times(slope, Num(minX + width))
        left == IF LessEq(Num(minY), leftIntersectionY)
                   /\ LessEq(leftIntersectionY, Num(minY + height))
                THEN << <<Num(minX), leftIntersectionY>> >> ELSE <<>>
        right == IF LessEq(Num(minY), rightIntersectionY)
                    /\ LessEq(rightIntersectionY, Num(minY + height))
                 THEN << <<Num(minX + width), rightIntersectionY>> >> ELSE <<>>
        bottomIntersectionX == Over(Num(minY), slope)
        topIntersectionX == Over(Num(minY + height), slope)
        bottom == IF slope # Infinity
                     /\ LessEq(Num(minX), bottomIntersectionX)
                     /\ LessEq(bottomIntersectionX, Num(minX + width))
                  THEN << <<bottomIntersectionX, Num(minY)>> >> ELSE <<>>
        top == IF slope # Infinity
                  /\ LessEq(Num(minX), topIntersectionX)
                  /\ LessEq(topIntersectionX, Num(minX + width))
               THEN << <<topIntersectionX, Num(minY + height)>> >> ELSE <<>>
        vertical == IF x = 0
                    THEN << <<Num(0), Num(minY)>>, <<Num(0), Num(minY + height)>> >>
                    ELSE <<>>
        horizontal == IF y = 0
                      THEN << <<Num(minX), Num(0)>>, <<Num(minX + width), Num(0)>> >>
                      ELSE <<>>
        potentialEndpoints == left \o right \o bottom \o top \o vertical \o horizontal
    IN  IF Len(potentialEndpoints) > 2
        THEN LET sorted == SortEndpoints(potentialEndpoints)
             IN  <<sorted[1], sorted[Len(sorted)]>>
        ELSE potentialEndpoints

\* this.frame.line(0, 0, 0, 0) of vectorLine, whose endpoints are exact
\* numbers; threw records that the last update raised a TypeError.
VectorLine0 == [x1 |-> Num(0), y1 |-> Num(0), x2 |-> Num(0), y2 |-> Num(0),
                threw |-> FALSE]

\* Reading endpoints[0][0] or endpoints[1][0] of a missing endpoint raises
\* before any attribute of the line is written.
vectorLine_write(line, endpoints) ==
    IF Len(endpoints) < 2 THEN [line EXCEPT !.threw = TRUE]
    ELSE LET p1 == SVGToRelativeFrac(endpoints[1][1], endpoints[1][2])
             p2 == SVGToRelativeFrac(endpoints[2][1], endpoints[2][2])
         IN  [line EXCEPT !.x1 = p1.x, !.y1 = p1.y, !.x2 = p2.x, !.y2 = p2.y,
                          !.threw = FALSE]

vectorLine_update(line, v) ==
    vectorLine_write(line, findLineEndpoints(v, internalX, internalY,
                                             GridWidth, GridHeight))

-----------------------------------------------------------------------------
(* embedMarkers: src/src/util/svg.ts.  Lengths are in tenths of a pixel. *)

\* trimPixels, by default
TrimPixels == 4

\* scale of processMarker (1.5), in tenths
MarkerScale == 15

MarkerAttr(el, markerPosition) ==
    IF markerPosition = "marker-end" THEN el.me ELSE el.ms

\* svgElement.querySelectorAll('line[marker-end], path[marker-end]'), and
\* the same for marker-start
QuerySelectorAllMarked(svg, markerPosition) ==
    LET IsMarked(p) == /\ NodeAt(svg, p).tag \in {"line", "path"}
                       /\ MarkerAttr(NodeAt(svg, p), markerPosition) # NoAttr
    IN  SelectSeq(DescPaths(svg), IsMarked)

\* markerUrl.replace(/^url\(#/, '').replace(/\)$/, '')
MarkerId(markerUrl) ==
    CASE markerUrl = "url(#m)" -> "m"
      [] markerUrl = "url(#x)" -> "x"
      [] OTHER -> markerUrl

trimLine_StartOnly(el, isEnd) ==
    LET angle == CosSin(el.geo[4] - el.geo[2], el.geo[3] - el.geo[1])
    IN  [el EXCEPT !.geo = <<el.geo[1] + Scaled(10 * TrimPixels, angle[1]),
                             el.geo[2] + Scaled(10 * TrimPixels, angle[2]),
                             el.geo[3], el.geo[4]>>]

trimLine(el, isEnd) ==
    LET x1 == el.geo[1]
        y1 == el.geo[2]
        x2 == el.geo[3]
        y2 == el.geo[4]
        angle == CosSin(y2 - y1, x2 - x1)
    IN  IF isEnd
        THEN [el EXCEPT !.geo = <<x1, y1, x2 - Scaled(10 * TrimPixels, angle[1]),
                                          y2 - Scaled(10 * TrimPixels, angle[2])>>]
        ELSE [el EXCEPT !.geo = <<x1 + Scaled(10 * TrimPixels, angle[1]),
                                  y1 + Scaled(10 * TrimPixels, angle[2]), x2, y2>>]

\* el.getPointAtLength(s) on the path `M x1,y1 L x2,y2`; s is clamped to the
\* length of the path.
getPointAtLength(el, s) ==
    LET x1 == el.geo[1]
        y1 == el.geo[2]
        x2 == el.geo[3]
        y2 == el.geo[4]
        angle == CosSin(y2 - y1, x2 - x1)
        sq == (x2 - x1) * (x2 - x1) + (y2 - y1) * (y2 - y1)
    IN  IF s <= 0 THEN <<x1, y1>>
        ELSE IF s * s >= sq THEN <<x2, y2>>
        ELSE <<x1 + Scaled(s, angle[1]), y1 + Scaled(s, angle[2])>>

\* el.getTotalLength() on the path `M x1,y1 L x2,y2`
getTotalLength(el) ==
    ISqrt((el.geo[3] - el.geo[1]) * (el.geo[3] - el.geo[1])
          + (el.geo[4] - el.geo[2]) * (el.geo[4] - el.geo[2]))

\* The path data is `M x1,y1 L x2,y2` with unsigned coordinates, the form
\* both the split at 'L' and the pattern for the leading M command expect.
trimPath(el, isEnd) ==
    LET totalLength == getTotalLength(el)
    IN  IF isEnd
        THEN LET newEndPoint == getPointAtLength(el, totalLength - 10 * TrimPixels)
             IN  [el EXCEPT !.geo = <<el.geo[1], el.geo[2], newEndPoint[1], newEndPoint[2]>>]
        ELSE LET newStartPoint == getPointAtLength(el, 10 * TrimPixels)
             IN  [el EXCEPT !.geo = <<newStartPoint[1], newStartPoint[2], el.geo[3], el.geo[4]>>]

\* translate(adjustedX, adjustedY) rotate(angle) scale(scale); angle is kept
\* as <<cos, sin>> in thousandths, ref is <<refX, refY>> of the marker.
MarkerTransform(x, y, angle, ref) ==
    [translate |-> <<x + TruncDiv(- ref[1] * MarkerScale * angle[1]
                                  + ref[2] * MarkerScale * angle[2], 1000),
                     y + TruncDiv(- ref[1] * MarkerScale * angle[2]
                                  - ref[2] * MarkerScale * angle[1], 1000)>>,
     rotate |-> angle,
     scale |-> MarkerScale]

AppendChild(svg, child) == [svg EXCEPT !.kids = Append(@, child)]

RemoveMarkerAttr(el, markerPosition) ==
    IF markerPosition = "marker-end" THEN [el EXCEPT !.me = NoAttr]
    ELSE [el EXCEPT !.ms = NoAttr]

\* processMarker(el, markerPosition) for the element at path p: the tree it
\* leaves, and whether it raised (marker is null, or has no first child).
\* The element is trimmed before the marker is read.
processMarker(svg, p, markerPosition) ==
    LET el == NodeAt(svg, p)
        markerUrl == MarkerAttr(el, markerPosition)
        isEnd == markerPosition = "marker-end"
    IN  IF markerUrl = NoAttr \/ markerUrl = "" THEN [svg |-> svg, threw |-> FALSE]
        ELSE IF el.tag \notin {"line", "path"} THEN [svg |-> svg, threw |-> FALSE]
        ELSE
          LET marker == QuerySelectorId(svg, MarkerId(markerUrl))
              x == IF isEnd THEN el.geo[3] ELSE el.geo[1]
              y == IF isEnd THEN el.geo[4] ELSE el.geo[2]
              lineAngle == CosSin(el.geo[4] - el.geo[2], el.geo[3] - el.geo[1])
              angle0 == IF el.tag = "line" THEN lineAngle ELSE <<1000, 0>>
              trimmedEl == IF el.tag = "line" THEN trimLine(el, isEnd)
                           ELSE trimPath(el, isEnd)
              trimmed == ReplaceAt(svg, p, trimmedEl)
          IN  IF marker = <<>> THEN [svg |-> trimmed, threw |-> TRUE]
              ELSE IF NodeAt(trimmed, marker[1]).kids = <<>>
                   THEN [svg |-> trimmed, threw |-> TRUE]
              ELSE
                LET markerEl == NodeAt(trimmed, marker[1])
                    angle == IF isEnd THEN angle0 ELSE QuarterTurns(angle0, 2)
                    clonedPath == [markerEl.kids[1] EXCEPT
                                     !.tf = MarkerTransform(x, y, angle, markerEl.geo)]
                    appended == AppendChild(trimmed, clonedPath)
                IN  [svg |-> ReplaceAt(appended, p,
                                       RemoveMarkerAttr(NodeAt(appended, p), markerPosition)),
                     threw |-> FALSE]

\* elements.forEach(el => processMarker(el, markerPosition)), from the
\* result r of what ran before; nothing runs after a raise.
RECURSIVE ForEachProcessMarker(_, _, _)
ForEachProcessMarker(r, elements, markerPosition) ==
    IF r.threw \/ elements = <<>> THEN r
    ELSE ForEachProcessMarker(processMarker(r.svg, Head(elements), markerPosition),
                              Tail(elements), markerPosition)

embedMarkers_EndOnly(svgElement) ==
    ForEachProcessMarker([svg |-> svgElement, threw |-> FALSE],
                         QuerySelectorAllMarked(svgElement, "marker-end"), "marker-end")

\* Both lists are collected before any marker is processed; processing
\* appends to the root only, so the collected paths keep naming the
\* collected elements.
embedMarkers(svgElement) ==
    LET elementsWithMarkersEnd == QuerySelectorAllMarked(svgElement, "marker-end")
        elementsWithMarkersStart == QuerySelectorAllMarked(svgElement, "marker-start")
        afterEnd == ForEachProcessMarker([svg |-> svgElement, threw |-> FALSE],
                                         elementsWithMarkersEnd, "marker-end")
    IN  ForEachProcessMarker(afterEnd, elementsWithMarkersStart, "marker-start")

-----------------------------------------------------------------------------
(* bundle and download: src/src/util/svg.ts *)

ExportTarget ==
    [BROWSER |-> "browser", ILLUSTRATOR |-> "illustrator", FIGMA |-> "figma"]

Targets == {ExportTarget.BROWSER, ExportTarget.ILLUSTRATOR, ExportTarget.FIGMA}

styleAttributes ==
    <<"fill", "fill-opacity", "opacity",
      "font", "font-family", "font-size",
      "stroke", "stroke-width", "stroke-opacity",
      "vector-effect">>

\* The properties a child takes from its parent when nothing declares them
Inherited ==
    {"fill", "fill-opacity", "font", "font-family", "font-size",
     "stroke", "stroke-width", "stroke-opacity"}

\* What getComputedStyle reports for a property nothing declares
InitialValue(prop) ==
    CASE prop = "fill" -> "rgb(0, 0, 0)"
      [] prop = "fill-opacity" -> "1"
      [] prop = "opacity" -> "1"
      [] prop = "font" -> "16px serif"
      [] prop = "font-family" -> "serif"
      [] prop = "font-size" -> "16px"
      [] prop = "stroke" -> "none"
      [] prop = "stroke-width" -> "1px"
      [] prop = "stroke-opacity" -> "1"
      [] prop = "vector-effect" -> "none"

\* The computed form of a declared value: colours as rgb(), lengths in px
ComputedForm(v) ==
    CASE v = "red" -> "rgb(255, 0, 0)"
      [] v = "blue" -> "rgb(0, 0, 255)"
      [] v = "black" -> "rgb(0, 0, 0)"
      [] v = "2" -> "2px"
      [] OTHER -> v

\* The cascade: the inline style wins over the style sheets, and the style
\* sheets over the presentation attribute
Specified(el, prop) ==
    IF Decl(el.style, prop) # NoAttr THEN Decl(el.style, prop)
    ELSE IF Decl(el.sheet, prop) # NoAttr THEN Decl(el.sheet, prop)
    ELSE Decl(el.attr, prop)

RECURSIVE Cascade(_, _, _, _)
Cascade(node, p, prop, fromParent) ==
    LET own == Specified(node, prop)
        here == IF own # NoAttr THEN ComputedForm(own)
                ELSE IF prop \in Inherited THEN fromParent
                ELSE InitialValue(prop)
    IN  IF p = <<>> THEN here
        ELSE Cascade(node.kids[Head(p)], Tail(p), prop, here)

\* window.getComputedStyle(element).getPropertyValue(prop), for the element
\* at path p of the copy; the style object is live, so it is read from the
\* tree as it stands
getPropertyValue(svg, p, prop) == Cascade(svg, p, prop, InitialValue(prop))

\* parseFloat of a computed length, in sixteenths of a pixel
ParsePx(v) ==
    CASE v = "2px" -> 32
      [] v = "1px" -> 16
      [] v = "0.5px" -> 8
      [] v = "0.25px" -> 4
      [] v = "0.125px" -> 2
      [] v = "0.0625px" -> 1

\* `${adjustedStrokeWidth}px`, from sixteenths of a pixel
FormatPx(n) ==
    CASE n = 32 -> "2px"
      [] n = 16 -> "1px"
      [] n = 8 -> "0.5px"
      [] n = 4 -> "0.25px"
      [] n = 2 -> "0.125px"
      [] n = 1 -> "0.0625px"

computeTransformedStrokeWidth(svg, p) ==
    LET ctm == NodeAt(svg, p).ctm
        horizontalScaleFactor == ISqrt(ctm[1] * ctm[1] + ctm[3] * ctm[3])
        verticalScaleFactor == ISqrt(ctm[2] * ctm[2] + ctm[4] * ctm[4])
        originalStrokeWidth == ParsePx(getPropertyValue(svg, p, "stroke-width"))
        major == IF horizontalScaleFactor >= verticalScaleFactor
                 THEN horizontalScaleFactor ELSE verticalScaleFactor
    IN  FormatPx(originalStrokeWidth \div major)

\* `${currentTransform} scale(${4/3})`: a further scale, as a fraction
FigmaScale == [fn |-> "scale", by |-> <<4, 3>>]

ParentPath(p) == SubSeq(p, 1, Len(p) - 1)

\* The body of styleAttributes.forEach for one property: what is written
CopyStyleAttr_StyleBesideAttribute(attributeStyleValue, elementStyleValue, parentStyleValue) ==
    IF elementStyleValue # parentStyleValue THEN "setProperty"
    ELSE IF attributeStyleValue # NoAttr THEN "setAttribute"
    ELSE "skip"

CopyStyleAttr(attributeStyleValue, elementStyleValue, parentStyleValue) ==
    IF attributeStyleValue # NoAttr THEN "setAttribute"
    ELSE IF elementStyleValue # parentStyleValue THEN "setProperty"
    ELSE "skip"

\* styleAttributes.forEach on the element at path p.  Writing an element's
\* computed value onto it leaves every computed value as it was, so each
\* property is decided on the styles as read at the start.
ForEachStyleAttr(svg, p) ==
    LET element == NodeAt(svg, p)
        props == { styleAttributes[i] : i \in 1..Len(styleAttributes) }
        Written(prop) ==
            LET elementStyleValue == getPropertyValue(svg, p, prop)
                parentStyleValue == IF p = <<>> THEN ""
                                    ELSE getPropertyValue(svg, ParentPath(p), prop)
                attributeStyleValue == Decl(element.attr, prop)
            IN  <<prop, elementStyleValue,
                  CopyStyleAttr(attributeStyleValue, elementStyleValue, parentStyleValue)>>
        written == { Written(prop) : prop \in props }
        setAttribute == { <<w[1], w[2]>> : w \in { v \in written : v[3] = "setAttribute" } }
        setProperty == { <<w[1], w[2]>> : w \in { v \in written : v[3] = "setProperty" } }
    IN  ReplaceAt(svg, p,
            [element EXCEPT
               !.attr = { d \in @ : Decl(setAttribute, d[1]) = NoAttr } \cup setAttribute,
               !.style = { d \in @ : Decl(setProperty, d[1]) = NoAttr } \cup setProperty])

ConvertNonScalingStroke_IllustratorOnly(svg, p, target) ==
    IF /\ target = ExportTarget.ILLUSTRATOR
       /\ getPropertyValue(svg, p, "vector-effect") = "non-scaling-stroke"
    THEN LET width == computeTransformedStrokeWidth(svg, p)
             element == NodeAt(svg, p)
         IN  ReplaceAt(svg, p,
                 [element EXCEPT
                    !.style = RemoveDecl(SetDecl(@, "stroke-width", width),
                                         "vector-effect"),
                    !.attr = RemoveDecl(@, "vector-effect")])
    ELSE svg

\* "Handle Illustrator and Figma specific styles"
ConvertNonScalingStroke(svg, p, target) ==
    IF /\ target \in {ExportTarget.ILLUSTRATOR, ExportTarget.FIGMA}
       /\ getPropertyValue(svg, p, "vector-effect") = "non-scaling-stroke"
    THEN LET width == computeTransformedStrokeWidth(svg, p)
             element == NodeAt(svg, p)
         IN  ReplaceAt(svg, p,
                 [element EXCEPT
                    !.style = RemoveDecl(SetDecl(@, "stroke-width", width),
                                         "vector-effect"),
                    !.attr = RemoveDecl(@, "vector-effect")])
    ELSE svg

\* "Handle Figma specific styles"
ScaleMathjax(svg, p, target) ==
    LET element == NodeAt(svg, p)
    IN  IF target = ExportTarget.FIGMA /\ "mathjax" \in element.class
        THEN ReplaceAt(svg, p, [element EXCEPT !.tfMore = Append(@, FigmaScale)])
        ELSE svg

copyComputedStyles(svg, p, target) ==
    ScaleMathjax(ConvertNonScalingStroke(ForEachStyleAttr(svg, p), p, target),
                 p, target)

\* traverseDOMTree(node, parentNode): the element, then its children in order
RECURSIVE traverseDOMTree(_, _, _)
RECURSIVE ForEachChildInline(_, _, _, _)
traverseDOMTree(svg, p, target) ==
    ForEachChildInline(copyComputedStyles(svg, p, target), p, 1, target)
ForEachChildInline(svg, p, i, target) ==
    IF i > Len(NodeAt(svg, p).kids) THEN svg
    ELSE ForEachChildInline(traverseDOMTree(svg, Append(p, i), target),
                            p, i + 1, target)

\* originalSvg.cloneNode(true) with the computed styles written onto the
\* copy.  The copy is a tree of its own: what embedMarkers and flattenSVG do
\* to it leaves the drawing untouched.
createInlineStyledSvg(originalSvg, target) ==
    traverseDOMTree(originalSvg, <<>>, target)

\* inlineSvg.outerHTML
outerHTML(svg) == [html |-> svg]

\* The statements of bundle, in the order they run
bundle_FlattenAroundEmbed ==
    <<"createInlineStyledSvg", "flattenSVG", "embedMarkers", "flattenSVG", "outerHTML">>

bundle == <<"createInlineStyledSvg", "embedMarkers", "flattenSVG", "outerHTML">>

\* The statements of download, in the order they run
download == <<"createInlineStyledSvg", "embedMarkers", "flattenSVG", "saveSVG">>

BodyOf(fn) == IF fn = "bundle" THEN bundle ELSE download

WithMarkers(el, ms, me) == [el EXCEPT !.ms = ms, !.me = me]

WithGeo(el, geo) == [el EXCEPT !.geo = geo]

\* a segment from (0, 0) to (30, 40)
Segment == <<0, 0, 300, 400>>

MarkerValues == {NoAttr, "url(#m)"}

\* <marker id="m" refX="6" refY="5"><path/></marker> and the <defs> holding it
ArrowMarker == WithGeo(El("marker", "m", NoAttr, << El("path", NoAttr, NoAttr, <<>>) >>), <<6, 5>>)

ArrowDefs == El("defs", NoAttr, NoAttr, <<ArrowMarker>>)

\* What the root of an exported drawing holds: lines with and without a
\* marker at either end, a line with an empty marker attribute, a line whose
\* marker does not exist, paths with a
\* marker, a polyline with a marker, a marked line inside a group, the
\* <defs> with the marker, and a marker without a glyph.
ExportElements ==
    { WithMarkers(WithGeo(El("line", NoAttr, NoAttr, <<>>), Segment), ms, me) :
        ms \in MarkerValues, me \in MarkerValues }
    \cup { WithMarkers(WithGeo(El("line", NoAttr, NoAttr, <<>>), Segment), NoAttr, ""),
           WithMarkers(WithGeo(El("line", NoAttr, NoAttr, <<>>), Segment), NoAttr, "url(#x)"),
           WithMarkers(WithGeo(El("path", NoAttr, NoAttr, <<>>), Segment), NoAttr, "url(#m)"),
           WithMarkers(WithGeo(El("path", NoAttr, NoAttr, <<>>), Segment), "url(#m)", NoAttr),
           WithMarkers(WithGeo(El("polyline", NoAttr, NoAttr, <<>>), Segment), NoAttr, "url(#m)"),
           El("g", NoAttr, NoAttr,
              << WithMarkers(WithGeo(El("line", NoAttr, NoAttr, <<>>), Segment),
                             "url(#m)", "url(#m)") >>),
           ArrowDefs,
           WithGeo(El("marker", "m", NoAttr, <<>>), <<6, 5>>) }

ExportDocs ==
    { El("svg", NoAttr, NoAttr, kids) :
        kids \in UNION { [1..k -> ExportElements] : k \in 0..MaxExportNodes } }

NoOutput == [kind |-> "none", data |-> [html |-> El("svg", NoAttr, NoAttr, <<>>)]]

ExportFresh ==
    /\ expFn \in {"bundle", "download"}
    /\ expRoot \in ExportDocs
    /\ expSvg = El("svg", NoAttr, NoAttr, <<>>)
    /\ expInline = El("svg", NoAttr, NoAttr, <<>>)
    /\ expPc = 1
    /\ expLog = <<>>
    /\ expOut = NoOutput

ExportIdle ==
    /\ expFn = "none"
    /\ expRoot = El("svg", NoAttr, NoAttr, <<>>)
    /\ expSvg = El("svg", NoAttr, NoAttr, <<>>)
    /\ expInline = El("svg", NoAttr, NoAttr, <<>>)
    /\ expPc = 0
    /\ expLog = <<>>
    /\ expOut = NoOutput

\* The statement bundle or download is about to run
AtStatement(name) ==
    /\ expPc \in 1..Len(BodyOf(expFn))
    /\ BodyOf(expFn)[expPc] = name
    /\ expLog' = Append(expLog, name)

-----------------------------------------------------------------------------
(* A scene: two points, one node built on them, and what is built on it *)

Coords == { 10 * i : i \in -1..MaxCoord }

GraphPoints == { Pt(x, y) : x \in Coords, y \in Coords }

LineFns == {"vector", "line", "lineBetweenPoints"}

BraceFns == {"brace", "braceLabel2", "braceLabel"}

\* the composition functions whose node depends on a single point
OnePointFns == {"vectorTipLabel", "vectorLine"}

\* the composition functions that build a second node on the first
ChainFns == {"addlabel", "controlLine"}

GraphFns == LineFns \cup BraceFns \cup OnePointFns \cup ChainFns \cup {"arrow"}

\* opt is the reverse flag of a brace label and the offset, in quarter
\* turns, of a tip label
OptsOf(fn) == IF fn \in BraceFns \cup {"vectorTipLabel"} THEN {0, 1} ELSE {0}

NoNode == [none |-> TRUE]

\* node.update() for the node the scene's composition function returns (for
\* addlabel the line it is given, for controlLine the path it draws)
UpdateOf(sc, node, pts) ==
    CASE sc.fn = "vector" -> vector_update(node, pts[1], pts[2])
      [] sc.fn = "line" -> line_update(node, pts[1], pts[2])
      [] sc.fn = "lineBetweenPoints" -> lineBetweenPoints_update(node, pts[1], pts[2])
      [] sc.fn = "arrow" -> arrow_update(node, pts[1], pts[2])
      [] sc.fn = "addlabel" -> line_update(node, pts[1], pts[2])
      [] sc.fn = "vectorTipLabel" -> vectorTipLabel_update(node, pts[2], sc.opt, TipRadius)
      [] sc.fn = "brace" -> brace_update(node, pts[1], pts[2], sc.opt = 1)
      [] sc.fn = "braceLabel2" -> braceLabel2_update(node, pts[1], pts[2], sc.opt = 1, BraceBuff)
      [] sc.fn = "braceLabel" -> braceLabel_update(node, pts[1], pts[2], sc.opt = 1, BraceBuff)
      [] sc.fn = "vectorLine" -> vectorLine_update(node, pts[2])
      [] sc.fn = "controlLine" -> controlLine_update(node, pts[1], pts[2])

\* update() of the node built on the first: the label of addlabel, the
\* arrowhead of pathArrow
UpdateDepOf(sc, dep, node) ==
    CASE sc.fn = "addlabel" -> addlabel_update(dep, node)
      [] sc.fn = "controlLine" -> pathArrow_update(dep, node, PathArrowScale)

\* The node as the composition function creates it, before its first update()
NewNode(sc) ==
    CASE sc.fn \in LineFns \cup {"arrow", "addlabel"} -> Line0
      [] sc.fn = "vectorTipLabel" -> TexAt(0, 0)
      [] sc.fn \in BraceFns -> alignCenter(TexAt(0, 0))
      [] sc.fn = "vectorLine" -> VectorLine0
      [] sc.fn = "controlLine" -> Path0

\* Every composition function ends with a first update() of what it built.
BuiltOn(sc, pts, node) ==
    [node |-> node,
     dep |-> CASE sc.fn = "addlabel" -> addlabel_update(alignCenter(TexAt(0, 0)), node)
               [] sc.fn = "controlLine" -> pathArrow_update(Path0, node, PathArrowScale)
               [] sc.fn = "arrow" -> arrow_head(pts[1], pts[2])
               [] OTHER -> NoNode]

Built(sc, pts) == BuiltOn(sc, pts, UpdateOf(sc, NewNode(sc), pts))

Scenes ==
    { [fn |-> fn, opt |-> o, movable |-> m] :
        fn \in GraphFns, o \in {0, 1}, m \in {1, 2} }

Origin == Pt(0, 0)

\* In one scene one of the two points is the one the caller mutates; a
\* node on a single point is built on the second, the first staying put.
GraphFresh ==
    /\ scene \in { sc \in Scenes : /\ sc.opt \in OptsOf(sc.fn)
                                   /\ sc.fn \in OnePointFns => sc.movable = 2 }
    /\ points \in { <<a, b>> : a \in GraphPoints, b \in GraphPoints }
    /\ scene.fn \in OnePointFns => points[1] = Origin
    /\ \E built \in {Built(scene, points)} :
          /\ gNode = built.node
          /\ gDep = built.dep
    /\ gLast = [op |-> "built", prev |-> "built"]

GraphIdle ==
    /\ scene = [fn |-> "none", opt |-> 0, movable |-> 1]
    /\ points = <<Origin, Origin>>
    /\ gNode = NoNode
    /\ gDep = NoNode
    /\ gLast = [op |-> "built", prev |-> "built"]

-----------------------------------------------------------------------------
(* Specification of repeated flattening *)

FlatIdle ==
    /\ doc = El("svg", NoAttr, NoAttr, <<>>)
    /\ docPrev = doc
    /\ flatCalls = 0

TexIdle ==
    /\ rendered = MathNode
    /\ texFill = [q \in ElementPaths(rendered) |-> ""]
    /\ texCall = NoCall

InitFlatten ==
    /\ doc \in FlattenDocs
    /\ docPrev = doc
    /\ flatCalls = 0
    /\ TexIdle
    /\ GraphIdle
    /\ ExportIdle
    /\ LabelIdle
    /\ CallIdle

InitTex == TexFresh /\ FlatIdle /\ GraphIdle /\ ExportIdle /\ LabelIdle /\ CallIdle

Flatten ==
    /\ flatCalls < MaxFlatten
    /\ docPrev' = doc
    /\ doc' = flattenSVG(doc)
    /\ flatCalls' = flatCalls + 1
    /\ UNCHANGED <<texVars, graphVars, exportVars, labelVars, callVars>>

NextFlatten == Flatten

SpecFlatten == InitFlatten /\ [][NextFlatten]_vars

SpecTex == InitTex /\ [][NextTex]_vars

-----------------------------------------------------------------------------
(* Specification of a scene whose points the caller moves *)

\* The caller assigns new coordinates to a point.
MovePoint ==
    /\ \E p \in GraphPoints :
          /\ p # points[scene.movable]
          /\ points' = [points EXCEPT ![scene.movable] = p]
    /\ gLast' = [op |-> "move", prev |-> gLast.op]
    /\ UNCHANGED <<scene, gNode, gDep>>
    /\ UNCHANGED <<flatVars, texVars, exportVars, labelVars, callVars>>

\* The caller invokes update() on the first node.
UpdateNode ==
    /\ gNode' = UpdateOf(scene, gNode, points)
    /\ gLast' = [op |-> "node", prev |-> gLast.op]
    /\ UNCHANGED <<scene, points, gDep>>
    /\ UNCHANGED <<flatVars, texVars, exportVars, labelVars, callVars>>

\* The caller invokes update() on the node built on the first.
UpdateDep ==
    /\ scene.fn \in ChainFns
    /\ gDep' = UpdateDepOf(scene, gDep, gNode)
    /\ gLast' = [op |-> "dep", prev |-> gLast.op]
    /\ UNCHANGED <<scene, points, gNode>>
    /\ UNCHANGED <<flatVars, texVars, exportVars, labelVars, callVars>>

NextGraph == MovePoint \/ UpdateNode \/ UpdateDep

InitGraph == GraphFresh /\ FlatIdle /\ TexIdle /\ ExportIdle /\ LabelIdle /\ CallIdle

SpecGraph == InitGraph /\ [][NextGraph]_vars

-----------------------------------------------------------------------------
(* Specification of an export *)

\* const inlineSvg = createInlineStyledSvg(root, target)
CallCreateInlineStyledSvg ==
    /\ AtStatement("createInlineStyledSvg")
    /\ expSvg' = createInlineStyledSvg(expRoot, ExportTarget.BROWSER)
    /\ expInline' = expSvg'
    /\ expPc' = expPc + 1
    /\ UNCHANGED <<expFn, expRoot, expOut>>
    /\ UNCHANGED <<flatVars, texVars, graphVars, labelVars, callVars>>

\* embedMarkers(inlineSvg); a raise ends bundle or download
CallEmbedMarkers ==
    /\ AtStatement("embedMarkers")
    /\ LET r == embedMarkers(expSvg)
       IN  /\ expSvg' = r.svg
           /\ expPc' = IF r.threw THEN 0 ELSE expPc + 1
           /\ expOut' = IF r.threw THEN [expOut EXCEPT !.kind = "threw"] ELSE expOut
    /\ UNCHANGED <<expFn, expRoot, expInline>>
    /\ UNCHANGED <<flatVars, texVars, graphVars, labelVars, callVars>>

\* flattenSVG(inlineSvg)
CallFlattenSVG ==
    /\ AtStatement("flattenSVG")
    /\ expSvg' = flattenSVG(expSvg)
    /\ expPc' = expPc + 1
    /\ UNCHANGED <<expFn, expRoot, expInline, expOut>>
    /\ UNCHANGED <<flatVars, texVars, graphVars, labelVars, callVars>>

\* return inlineSvg.outerHTML
ReturnOuterHTML ==
    /\ AtStatement("outerHTML")
    /\ expOut' = [kind |-> "returned", data |-> outerHTML(expSvg)]
    /\ expPc' = expPc + 1
    /\ UNCHANGED <<expFn, expRoot, expInline, expSvg>>
    /\ UNCHANGED <<flatVars, texVars, graphVars, labelVars, callVars>>

\* saveSVG(filename, inlineSvg.outerHTML)
CallSaveSVG ==
    /\ AtStatement("saveSVG")
    /\ expOut' = [kind |-> "saved", data |-> outerHTML(expSvg)]
    /\ expPc' = expPc + 1
    /\ UNCHANGED <<expFn, expRoot, expInline, expSvg>>
    /\ UNCHANGED <<flatVars, texVars, graphVars, labelVars, callVars>>

NextExport ==
    \/ CallCreateInlineStyledSvg
    \/ CallEmbedMarkers
    \/ CallFlattenSVG
    \/ ReturnOuterHTML
    \/ CallSaveSVG

InitExport == ExportFresh /\ FlatIdle /\ TexIdle /\ GraphIdle /\ LabelIdle /\ CallIdle

SpecExport == InitExport /\ [][NextExport]_vars

-----------------------------------------------------------------------------
(* C7 - C10: structural matching and setColor *)

SelfMatch == texCall.active /\ texCall.match = rendered

AllChildren(tree) == [i \in 1..Len(tree.kids) |-> <<i>>]

\* C7 as stated: matching a typeset tree against a structurally identical
\* copy of itself returns exactly one match, made of all children of the
\* math node in order, for every tree shape, a childless math node included.
C7_SelfMatchAnyShape ==
    SelfMatch => texCall.matches = <<AllChildren(rendered)>>

\* C7 amended: matching a typeset tree whose math node has at least one
\* child against a structurally identical copy of itself returns exactly one
\* match, made of all children of the math node in order; repeated identical
\* siblings add no further match.
C7_SelfMatchWhole ==
    (SelfMatch /\ Len(rendered.kids) >= 1)
        => texCall.matches = <<AllChildren(rendered)>>

C7_Witness ==
    /\ SelfMatch
    /\ Len(rendered.kids) = 2
    /\ rendered.kids[1] = rendered.kids[2]
    /\ texCall.matches = <<(<< <<1>>, <<2>> >>)>>

\* The candidate occurs in the tree: some element below the root deep-matches
\* the candidate's root, or the candidate's children deep-match, one by one
\* and all of them, the siblings from some position on.
Occurs(tree, match) ==
    \/ \E q \in RangeOf(DescPaths(tree)) : nodeMatches(NodeAt(tree, q), match)
    \/ \E q \in ElementPaths(tree) :
         LET kids == NodeAt(tree, q).kids
         IN  \E i \in 1..Len(kids) :
               \A j \in 1..Len(match.kids) :
                  /\ i + j - 1 <= Len(kids)
                  /\ nodeMatches(kids[i + j - 1], match.kids[j])

\* C8: when the candidate has no occurrence in the tree, findSubtreeMatches
\* returns the empty list and setColor raises the lookup failure and
\* recolours no element.
C8_NoOccurrenceLookupFailure ==
    (texCall.active /\ ~Occurs(rendered, texCall.match))
        => /\ texCall.matches = <<>>
           /\ texCall.err = LookupFailure
           /\ texFill = texCall.before

\* A lookup failure on a label whose first child starts a run that matches
\* the candidate's first child only, after an earlier call coloured it.
C8_Witness ==
    /\ texCall.active
    /\ ~Occurs(rendered, texCall.match)
    /\ Len(rendered.kids) >= 1
    /\ Len(texCall.match.kids) = 2
    /\ nodeMatches(rendered.kids[1], texCall.match.kids[1])
    /\ texCall.err = LookupFailure
    /\ texFill[<<1>>] = "red"

\* C9: with at least one match, setColor raises the range failure and
\* recolours nothing when index < 0 or index >= the number of matches, and
\* for an index in range sets the fill of exactly the elements of
\* matches[index].
C9_SetColorIndex ==
    (texCall.active /\ Len(texCall.matches) >= 1)
        => IF texCall.index < 0 \/ texCall.index >= Len(texCall.matches)
           THEN /\ texCall.err = RangeFailure
                /\ texFill = texCall.before
           ELSE /\ texCall.err = NoError
                /\ \A q \in DOMAIN texFill :
                     texFill[q] = IF q \in RangeOf(texCall.matches[texCall.index + 1])
                                  THEN texCall.color
                                  ELSE texCall.before[q]

\* A range failure at index = number of matches, on a label an earlier
\* in-range call has coloured in part.
C9_Witness ==
    /\ texCall.active
    /\ Len(texCall.matches) >= 1
    /\ texCall.index = Len(texCall.matches)
    /\ texCall.err = RangeFailure
    /\ \E q \in DOMAIN texFill : texFill[q] = "red"
    /\ \E q \in DOMAIN texFill : texFill[q] = ""

RECURSIVE NodesOf(_)
NodesOf(n) == {n} \cup UNION { NodesOf(n.kids[i]) : i \in 1..Len(n.kids) }

\* The deep-match rule as C10 states it: data-c is compared exactly when the
\* candidate node carries one.
RECURSIVE DeepMatchCandidateDriven(_, _)
DeepMatchCandidateDriven(node, subtreeNode) ==
    /\ node.tag = subtreeNode.tag
    /\ node.mml = subtreeNode.mml
    /\ subtreeNode.c # NoAttr => node.c = subtreeNode.c
    /\ Len(node.kids) = Len(subtreeNode.kids)
    /\ \A i \in 1..Len(node.kids) :
         DeepMatchCandidateDriven(node.kids[i], subtreeNode.kids[i])

\* C10: a target node and a candidate node deep-match iff their kinds are
\* equal, their data-c are equal whenever the candidate node carries one
\* (and not compared when it carries none), and their children deep-match
\* pairwise in order.
C10_DeepMatchRule ==
    texCall.active =>
        \A n \in NodesOf(rendered), c \in NodesOf(texCall.match) :
            nodeMatches(n, c) <=> DeepMatchCandidateDriven(n, c)

-----------------------------------------------------------------------------
(* C2, C3: the export pipeline *)

Ran(name) == { i \in 1..Len(expLog) : expLog[i] = name }

Finished == expOut.kind \in {"returned", "saved"}

\* C2 as stated: in bundle and in download flattenSVG has been applied to the
\* copy before embedMarkers runs, and is applied again after it.
C2_FlattenBeforeAndAfterEmbed ==
    \A i \in Ran("embedMarkers") :
        /\ \E j \in Ran("flattenSVG") : j < i
        /\ Finished => \E j \in Ran("flattenSVG") : j > i

\* C2 amended: in bundle and in download embedMarkers runs first, on the
\* style-inlined copy as createInlineStyledSvg returned it (not flattened),
\* and flattenSVG is applied exactly once, after embedMarkers has returned;
\* what is returned or saved is that tree.  When embedMarkers raises,
\* flattenSVG does not run.
C2_EmbedThenFlattenOnce ==
    /\ Ran("embedMarkers") \subseteq {2}
    /\ Ran("flattenSVG") \subseteq {3}
    /\ Len(expLog) >= 2 =>
          /\ expLog[1] = "createInlineStyledSvg"
          /\ expLog[2] = "embedMarkers"
    /\ Len(expLog) = 1 =>
          /\ expInline = createInlineStyledSvg(expRoot, ExportTarget.BROWSER)
          /\ expSvg = expInline
    /\ Len(expLog) = 2 => expSvg = embedMarkers(expInline).svg
    /\ expOut.kind = "threw" => Len(expLog) = 2
    /\ Finished =>
          /\ Ran("flattenSVG") = {3}
          /\ expOut.data =
               outerHTML(flattenSVG(embedMarkers(expInline).svg))

\* bundle has returned the markup of a drawing that had a <defs> and a line
\* or path with an end marker: the <defs> is gone and a glyph is embedded.
C2_Witness ==
    /\ expOut.kind = "returned"
    /\ expLog = <<"createInlineStyledSvg", "embedMarkers", "flattenSVG", "outerHTML">>
    /\ QuerySelectorAllTag(expRoot, "defs") # <<>>
    /\ \E p \in RangeOf(QuerySelectorAllMarked(expRoot, "marker-end")) :
          NodeAt(expRoot, p).me # ""
    /\ QuerySelectorAllTag(expOut.data.html, "defs") = <<>>
    /\ \E i \in 1..Len(expOut.data.html.kids) : expOut.data.html.kids[i].tf # NoTransform

\* embedMarkers(inlineSvg) has just returned
EmbedReturned ==
    /\ expLog = <<"createInlineStyledSvg", "embedMarkers">>
    /\ expOut.kind = "none"

\* the tree embedMarkers was called on
BeforeEmbed == expInline

\* the children appended to the root since embedMarkers was called
Appended == SubSeq(expSvg.kids, Len(BeforeEmbed.kids) + 1, Len(expSvg.kids))

\* C3 as stated: after embedMarkers returns no element carries a
\* marker-start or marker-end attribute, and one glyph has been appended to
\* the root for every (element, end) pair that carried one before the call.
C3_NoMarkerAttributeLeft ==
    EmbedReturned =>
        /\ \A p \in RangeOf(DescPaths(expSvg)) :
              NodeAt(expSvg, p).ms = NoAttr /\ NodeAt(expSvg, p).me = NoAttr
        /\ Len(Appended) =
              Cardinality({ <<p, pos>> \in RangeOf(DescPaths(BeforeEmbed))
                                            \X {"marker-start", "marker-end"} :
                              MarkerAttr(NodeAt(BeforeEmbed, p), pos) # NoAttr })

\* the (line or path, end) pairs with a marker reference that is not empty,
\* of one end, in document order
Referring(pos) ==
    LET Refers(p) == MarkerAttr(NodeAt(BeforeEmbed, p), pos) # ""
    IN  SelectSeq(QuerySelectorAllMarked(BeforeEmbed, pos), Refers)

\* the first child of the marker a pair refers to
GlyphOf(p, pos) ==
    LET hit == QuerySelectorId(BeforeEmbed, MarkerId(MarkerAttr(NodeAt(BeforeEmbed, p), pos)))
    IN  NodeAt(BeforeEmbed, hit[1]).kids[1]

\* C3 amended: after embedMarkers returns, no line or path element that was
\* in the tree carries a marker-start or marker-end attribute with a value
\* that is not empty; an empty attribute, and any marker attribute of an
\* element that is neither a line nor a path, is left as it was; and for
\* every (line or path, end) pair that carried a value that is not empty,
\* exactly one clone of the first child of the marker it refers to has been
\* appended to the root, with a transform: the end markers first, then the
\* start markers, each in document order.
C3_LineAndPathMarkersEmbedded ==
    EmbedReturned =>
        /\ \A p \in RangeOf(DescPaths(BeforeEmbed)) :
              LET was == NodeAt(BeforeEmbed, p)
                  is == NodeAt(expSvg, p)
              IN  IF was.tag \in {"line", "path"}
                  THEN /\ is.ms = (IF was.ms = "" THEN "" ELSE NoAttr)
                       /\ is.me = (IF was.me = "" THEN "" ELSE NoAttr)
                  ELSE is.ms = was.ms /\ is.me = was.me
        /\ Len(Appended) = Len(Referring("marker-end")) + Len(Referring("marker-start"))
        /\ \A k \in 1..Len(Referring("marker-end")) :
              /\ Appended[k].tf # NoTransform
              /\ [Appended[k] EXCEPT !.tf = NoTransform]
                   = GlyphOf(Referring("marker-end")[k], "marker-end")
        /\ \A k \in 1..Len(Referring("marker-start")) :
              LET g == Appended[Len(Referring("marker-end")) + k]
              IN  /\ g.tf # NoTransform
                  /\ [g EXCEPT !.tf = NoTransform]
                       = GlyphOf(Referring("marker-start")[k], "marker-start")

\* embedMarkers returned on a drawing with a line marked at both ends, which
\* got its two glyphs, and with an element that keeps a marker attribute.
C3_Witness ==
    /\ EmbedReturned
    /\ \E p \in RangeOf(DescPaths(BeforeEmbed)) :
          /\ NodeAt(BeforeEmbed, p).tag = "line"
          /\ NodeAt(BeforeEmbed, p).ms = "url(#m)"
          /\ NodeAt(BeforeEmbed, p).me = "url(#m)"
          /\ NodeAt(expSvg, p).ms = NoAttr
          /\ NodeAt(expSvg, p).me = NoAttr
    /\ Len(Appended) = 2
    /\ \E p \in RangeOf(DescPaths(expSvg)) : NodeAt(expSvg, p).me # NoAttr

-----------------------------------------------------------------------------
(* C4 - C6: the update closures *)

\* The endpoints update() would write for the points as they are now.
FreshLine == [x1 |-> SVGToRelative(points[1].x, points[1].y).x,
              y1 |-> SVGToRelative(points[1].x, points[1].y).y,
              x2 |-> SVGToRelative(points[2].x, points[2].y).x,
              y2 |-> SVGToRelative(points[2].x, points[2].y).y]

\* C4: mutating a dependency point of a node built by line(), vector() or
\* lineBetweenPoints() leaves the node's endpoints as its last update() wrote
\* them, and an update() of the node makes them the plot transform of the
\* points' current coordinates.
C4_EndpointsFollowUpdateOnly ==
    [][ scene.fn \in LineFns =>
          /\ gLast'.op = "move" => gNode' = gNode
          /\ gLast'.op = "node" => /\ points' = points
                                   /\ gNode' = FreshLine ]_vars

\* A point was mutated after the line's last update(): the endpoints are
\* not the plot transform of the current coordinates.
C4_Witness ==
    /\ scene.fn \in LineFns
    /\ gLast = [op |-> "move", prev |-> "node"]
    /\ gNode # FreshLine

MidOf(line) == <<line.x1 + (line.x2 - line.x1) \div 2,
                 line.y1 + (line.y2 - line.y1) \div 2>>

\* C5: in the chain point -> line() -> addlabel(), an update() of the label
\* places it at the midpoint of the endpoints the line has at that moment:
\* the midpoint of the current points' transforms when the line was updated
\* just before, the midpoint of the stale endpoints when the label is
\* updated right after the mutation.
C5_LabelAtMidpointOfLine ==
    (scene.fn = "addlabel" /\ gLast.op = "dep") =>
        /\ <<gDep.x, gDep.y>> = MidOf(gNode)
        /\ gDep.transform = MidOf(gNode)
        /\ gLast.prev = "node" => <<gDep.x, gDep.y>> = MidOf(FreshLine)

\* The label was updated before the line: it sits at the midpoint of the
\* stale endpoints, which is not the midpoint of the current ones.
C5_Witness ==
    /\ scene.fn = "addlabel"
    /\ gLast = [op |-> "dep", prev |-> "move"]
    /\ gNode # FreshLine
    /\ <<gDep.x, gDep.y>> = MidOf(gNode)
    /\ <<gDep.x, gDep.y>> # MidOf(FreshLine)

\* C6: a second update() of a node right after a first one, nothing having
\* changed in between, leaves the geometry of every node as the first left it.
C6_UpdateIdempotent ==
    [][ (gLast'.op \in {"node", "dep"} /\ gLast.op = gLast'.op) =>
            (gNode' = gNode /\ gDep' = gDep) ]_vars

\* A tip label updated twice in a row, standing away from its point by the
\* shift its update() ends with.
C6_Witness ==
    /\ scene.fn = "vectorTipLabel"
    /\ gLast = [op |-> "node", prev |-> "node"]
    /\ <<gNode.x, gNode.y>> # <<SVGToRelative(points[2].x, points[2].y).x,
                                SVGToRelative(points[2].x, points[2].y).y>>

-----------------------------------------------------------------------------
(* C1 *)

\* C1: flattenSVG is idempotent: a second application leaves the tree
\* exactly as the first application left it.
C1_FlattenIdempotent == flatCalls = 2 => doc = docPrev


-----------------------------------------------------------------------------
(* TeX label: constructor, drawBackground and replace (src/elements/tex.ts).
   The inner group is the sequence of its children; a child is a typeset tree
   or a background rectangle, told apart from its likes by a serial number. *)

Margin == 6

TexStrings == {"x", "y"}

Tree(id, s) == [kind |-> "tree", id |-> id, tex |-> s,
                width |-> 0, height |-> 0]

\* new Rectangle(-margin/2, -margin/2, bbox.width/_scale + margin, ...)
Rectangle(id) == [kind |-> "rect", id |-> id, tex |-> "",
                  width |-> BBox.width + Margin,
                  height |-> BBox.height + Margin]

Returned(op, old, new) == [op |-> op, threw |-> FALSE, old |-> old, new |-> new]

Raised(op, old, new) == [op |-> op, threw |-> TRUE, old |-> old, new |-> new]

IndexOfId(inner, id) == {i \in 1..Len(inner) : inner[i].id = id}

\* Node.removeChild: the child with that identity leaves the sequence
RemoveChild(inner, id) ==
    LET i == CHOOSE j \in IndexOfId(inner, id) : TRUE
    IN  RemoveIdx(inner, i)

\* drawBackground(replace): firstChild.remove() when replace, then prepend
drawBackground(inner, replace, id) ==
    IF replace /\ inner = <<>>
    THEN [inner |-> inner, threw |-> TRUE]
    ELSE [inner |-> <<Rectangle(id)>> \o (IF replace THEN Tail(inner) ELSE inner),
          threw |-> FALSE]

\* replace(s): removeChild(this.rendered), appendChild(rendered),
\* this.rendered = rendered, drawBackground(true)
replace(inner, cur, s, id) ==
    IF IndexOfId(inner, cur) = {}
    THEN [inner |-> inner, rendered |-> cur, threw |-> TRUE]
    ELSE LET swapped == Append(RemoveChild(inner, cur), Tree(id, s))
             drawn == drawBackground(swapped, TRUE, id + 1)
         IN  [inner |-> drawn.inner, rendered |-> id, threw |-> drawn.threw]

\* new TeX(s, x, y): the inner group holds the typeset tree and nothing else
LabelFresh ==
    /\ \E s \in TexStrings : lblInner = <<Tree(1, s)>>
    /\ lblRendered = 1
    /\ lblSerial = 1
    /\ lblLast = Returned("new", 0, 1)

DrawBackground ==
    /\ lblSerial + 1 <= MaxLabelSerial
    /\ LET r == drawBackground(lblInner, FALSE, lblSerial + 1)
       IN  /\ lblInner' = r.inner
           /\ lblLast' = Returned("drawBackground", lblRendered, lblRendered)
    /\ lblSerial' = lblSerial + 1
    /\ UNCHANGED lblRendered
    /\ UNCHANGED <<flatVars, texVars, graphVars, exportVars, callVars>>

DrawBackgroundReplace ==
    /\ lblSerial + 1 <= MaxLabelSerial
    /\ LET r == drawBackground(lblInner, TRUE, lblSerial + 1)
       IN  /\ lblInner' = r.inner
           /\ lblLast' = IF r.threw
                         THEN Raised("drawBackground", lblRendered, lblRendered)
                         ELSE Returned("drawBackground", lblRendered, lblRendered)
    /\ lblSerial' = lblSerial + 1
    /\ UNCHANGED lblRendered
    /\ UNCHANGED <<flatVars, texVars, graphVars, exportVars, callVars>>

Replace ==
    /\ lblSerial + 2 <= MaxLabelSerial
    /\ \E s \in TexStrings :
         LET r == replace(lblInner, lblRendered, s, lblSerial + 1)
         IN  /\ lblInner' = r.inner
             /\ lblRendered' = r.rendered
             /\ lblLast' = IF r.threw
                           THEN Raised("replace", lblRendered, lblSerial + 1)
                           ELSE Returned("replace", lblRendered, lblSerial + 1)
    /\ lblSerial' = lblSerial + 2
    /\ UNCHANGED <<flatVars, texVars, graphVars, exportVars, callVars>>

NextLabel == DrawBackground \/ DrawBackgroundReplace \/ Replace

InitLabel == LabelFresh /\ FlatIdle /\ TexIdle /\ GraphIdle /\ ExportIdle /\ CallIdle

SpecLabel == InitLabel /\ [][NextLabel]_vars

-----------------------------------------------------------------------------
(* C11 *)

TreeIds(inner) == {inner[i].id : i \in {j \in 1..Len(inner) : inner[j].kind = "tree"}}

\* C11: after replace(s), whatever the label went through before, the new
\* tree is a child of the inner group and is the current rendered tree, and
\* the tree it replaced is no longer a child of the inner group.
C11_ReplaceKeepsNewTree ==
    lblLast.op = "replace" =>
        /\ ~lblLast.threw
        /\ lblRendered = lblLast.new
        /\ lblLast.new \in TreeIds(lblInner)
        /\ lblLast.old \notin TreeIds(lblInner)


-----------------------------------------------------------------------------
(* Style inlining on its own: createInlineStyledSvg on a drawing and a target *)

WithStyle(el, attr, style, sheet) ==
    [el EXCEPT !.attr = attr, !.style = style, !.sheet = sheet]

WithClass(el, class) == [el EXCEPT !.class = class]

WithCTM(el, ctm) == [el EXCEPT !.ctm = ctm]

NonScaling == <<"vector-effect", "non-scaling-stroke">>

\* Elements as a drawing holds them: presentation attributes, rules of the
\* page's style sheet, a fill set by TeX.setColor, the classes of a label
StyleLeaves ==
    LET e == El("path", NoAttr, NoAttr, <<>>)
    IN  { e,
          WithStyle(e, {<<"fill", "red">>}, {}, {}),
          WithStyle(e, {<<"fill", "black">>}, {}, {}),
          WithStyle(e, {}, {}, {<<"fill", "red">>}),
          WithStyle(e, {<<"fill", "red">>}, {}, {<<"fill", "blue">>}),
          WithStyle(e, {}, {<<"fill", "red">>}, {}),
          WithCTM(WithStyle(e, {}, {}, {NonScaling}), <<0, 2, -2, 0>>),
          WithCTM(WithStyle(e, {NonScaling, <<"stroke-width", "2">>}, {}, {}),
                  <<2, 0, 0, 2>>),
          WithClass(e, {"tex", "mathjax"}) }

StyleContainers ==
    LET e == El("g", NoAttr, NoAttr, <<>>)
    IN  { e,
          WithCTM(WithStyle(e, {NonScaling}, {}, {}), <<2, 0, 0, 1>>),
          WithClass(WithStyle(e, {<<"fill", "red">>}, {}, {}), {"tex", "mathjax"}) }

StyleDocs ==
    { El("svg", NoAttr, NoAttr, f) :
        f \in ForestsUpTo(MaxStyleNodes, StyleLeaves, StyleContainers) }

InlineFresh ==
    /\ \E d \in StyleDocs, t \in Targets :
         /\ input = [fn |-> "createInlineStyledSvg", svg |-> d, target |-> t]
         /\ output = [done |-> FALSE, svg |-> d]

\* const inlineSvg = createInlineStyledSvg(root, target)
Inline ==
    /\ input.fn = "createInlineStyledSvg"
    /\ ~output.done
    /\ output' = [done |-> TRUE, svg |-> createInlineStyledSvg(input.svg, input.target)]
    /\ UNCHANGED input
    /\ UNCHANGED <<flatVars, texVars, graphVars, exportVars, labelVars>>

NextInline == Inline

InitInline == InlineFresh /\ FlatIdle /\ TexIdle /\ GraphIdle /\ ExportIdle /\ LabelIdle

SpecInline == InitInline /\ [][NextInline]_vars

-----------------------------------------------------------------------------
(* C12 *)

Inlined == input.fn = "createInlineStyledSvg" /\ output.done

StyleProps == RangeOf(styleAttributes)

\* the element at path p before and after inlining
Before(p) == NodeAt(input.svg, p)

After(p) == NodeAt(output.svg, p)

HadAttribute(p, prop) == Decl(Before(p).attr, prop) # NoAttr

GotStyle(p, prop) == Decl(After(p).style, prop) # Decl(Before(p).style, prop)

DiffersFromParent(p, prop) ==
    getPropertyValue(input.svg, p, prop) # getPropertyValue(input.svg, ParentPath(p), prop)

\* the rule of C12 for one element and one property
InlineRule(p, prop) ==
    /\ HadAttribute(p, prop) =>
           /\ Decl(After(p).attr, prop) # NoAttr
           /\ ~GotStyle(p, prop)
    /\ ~HadAttribute(p, prop) /\ p # <<>> =>
           (GotStyle(p, prop) => DiffersFromParent(p, prop))

\* the element declares non-scaling-stroke and the target is a vector tool
Converts(p) ==
    /\ input.target \in {ExportTarget.ILLUSTRATOR, ExportTarget.FIGMA}
    /\ getPropertyValue(input.svg, p, "vector-effect") = "non-scaling-stroke"

\* C12 as stated: for every export target, an element with an allow-listed
\* property as a direct attribute keeps the attribute and receives no inline
\* style entry for it, and an element without the attribute receives an
\* inline style entry only when its computed value differs from its parent's.
C12_InlineRuleEveryTarget ==
    Inlined =>
        \A p \in ElementPaths(input.svg), prop \in StyleProps : InlineRule(p, prop)

\* C12, amended: the rule holds for every property on target browser, and on
\* the targets illustrator and figma for every property except stroke-width
\* and vector-effect of an element whose computed vector-effect is
\* non-scaling-stroke; where it holds, the attribute is rewritten with the
\* computed value.
C12_InlineRuleOutsideConversion ==
    Inlined =>
        \A p \in ElementPaths(input.svg), prop \in StyleProps :
            ~(Converts(p) /\ prop \in {"stroke-width", "vector-effect"}) =>
                /\ InlineRule(p, prop)
                /\ HadAttribute(p, prop) =>
                       Decl(After(p).attr, prop) = getPropertyValue(input.svg, p, prop)

\* a drawing inlined for a vector tool where one element kept its fill
\* attribute, gained no style for it, and another gained an inline fill
C12_Witness ==
    /\ Inlined
    /\ input.target # ExportTarget.BROWSER
    /\ \E p, q \in ElementPaths(input.svg) :
         /\ HadAttribute(p, "fill") /\ ~GotStyle(p, "fill")
         /\ Decl(After(p).attr, "fill") = "rgb(0, 0, 255)"
         /\ q # <<>> /\ ~HadAttribute(q, "fill") /\ GotStyle(q, "fill")

-----------------------------------------------------------------------------
(* C19 *)

\* the element at path p as inlining for the browser leaves it
Plain(p) == NodeAt(createInlineStyledSvg(input.svg, ExportTarget.BROWSER), p)

Major(ctm) ==
    LET h == ISqrt(ctm[1] * ctm[1] + ctm[3] * ctm[3])
        v == ISqrt(ctm[2] * ctm[2] + ctm[4] * ctm[4])
    IN  IF h >= v THEN h ELSE v

\* the stroke width of the element at p as it stood when its turn came
WidthBeforeConversion(p) ==
    getPropertyValue(ReplaceAt(output.svg, p, [After(p) EXCEPT !.style = Plain(p).style]),
                     p, "stroke-width")

\* the hint of the element at p is kept and its stroke width is not converted:
\* an inline stroke width is the one it had or the computed one
NoConversion(p) ==
    /\ getPropertyValue(output.svg, p, "vector-effect")
           = getPropertyValue(input.svg, p, "vector-effect")
    /\ Decl(Before(p).attr, "vector-effect") # NoAttr =>
           Decl(After(p).attr, "vector-effect") # NoAttr
    /\ Decl(Before(p).style, "vector-effect") # NoAttr =>
           Decl(After(p).style, "vector-effect") # NoAttr
    /\ Decl(After(p).style, "stroke-width") \in
           {Decl(Before(p).style, "stroke-width"),
            getPropertyValue(input.svg, p, "stroke-width")}

\* the inline stroke width is the converted one and the hint is gone
Conversion(p) ==
    /\ Decl(After(p).attr, "vector-effect") = NoAttr
    /\ Decl(After(p).style, "vector-effect") = NoAttr
    /\ ParsePx(Decl(After(p).style, "stroke-width")) * Major(After(p).ctm)
           = ParsePx(WidthBeforeConversion(p))
    /\ RemoveDecl(After(p).attr, "vector-effect")
           = RemoveDecl(Plain(p).attr, "vector-effect")
    /\ RemoveDecl(RemoveDecl(After(p).style, "stroke-width"), "vector-effect")
           = RemoveDecl(RemoveDecl(Plain(p).style, "stroke-width"), "vector-effect")

\* C19: with target browser no adjustment is made; the non-scaling-stroke
\* conversion is applied exactly when the target is illustrator or figma and
\* the element's computed vector-effect is non-scaling-stroke; the 4/3 scale
\* is appended to the transform exactly when the target is figma and the
\* element has class mathjax.
C19_TargetAdjustments ==
    Inlined =>
        \A p \in ElementPaths(input.svg) :
            /\ After(p).tf = Before(p).tf
            /\ IF Converts(p) THEN Conversion(p) ELSE NoConversion(p)
            /\ IF input.target = ExportTarget.FIGMA /\ "mathjax" \in Before(p).class
               THEN After(p).tfMore = Append(Before(p).tfMore, FigmaScale)
               ELSE After(p).tfMore = Before(p).tfMore

\* a drawing inlined for figma: a label was scaled, and a non-scaling stroke
\* of 2px under a matrix of scale 2 became an inline stroke of 1px
C19_Witness ==
    /\ Inlined
    /\ input.target = ExportTarget.FIGMA
    /\ \E p, q \in ElementPaths(input.svg) :
         /\ "mathjax" \in Before(p).class
         /\ After(p).tfMore = <<FigmaScale>>
         /\ Converts(q)
         /\ Decl(Before(q).attr, "stroke-width") = "2"
         /\ Decl(After(q).attr, "vector-effect") = NoAttr
         /\ Decl(After(q).style, "stroke-width") = "1px"


-----------------------------------------------------------------------------
(* C13 *)

\* every <use> of the document refers to an element of the document
EveryUseResolves(svg) ==
    \A p \in RangeOf(QuerySelectorAllTag(svg, "use")) :
        /\ NodeAt(svg, p).href \notin {NoAttr, ""}
        /\ QuerySelectorId(svg, NodeAt(svg, p).href) # <<>>

\* C13: after flattenSVG on a document in which every use element's href
\* resolves to an element of that document, the tree contains no use element
\* and no defs element, whatever the order of the elements, the nesting of
\* references inside targets or the number of defs containers.
C13_NoUseNoDefsLeft ==
    flatCalls = 1 /\ EveryUseResolves(docPrev) =>
        /\ QuerySelectorAllTag(doc, "use") = <<>>
        /\ QuerySelectorAllTag(doc, "defs") = <<>>


-----------------------------------------------------------------------------
(* embedMarkers on its own: a drawing with the marker and one marked line *)

\* one pixel along each direction whose cosine and sine are exact in
\* thousandths, in tenths of a pixel
Directions ==
    { <<10, 0>>, <<0, 10>>, <<-10, 0>>, <<0, -10>>,
      <<6, 8>>, <<-8, 6>>, <<-6, -8>>, <<8, -6>> }

MarkedLines ==
    { WithMarkers(WithGeo(El("line", NoAttr, NoAttr, <<>>),
                          <<0, 0, k * d[1], k * d[2]>>), ms, me) :
        k \in 0..MaxLineLength, d \in Directions,
        ms \in MarkerValues, me \in MarkerValues }

MarkedDocs == { El("svg", NoAttr, NoAttr, <<ArrowDefs, l>>) : l \in MarkedLines }

MarkersFresh ==
    /\ \E d \in MarkedDocs :
         /\ input = [fn |-> "embedMarkers", svg |-> d]
         /\ output = [done |-> FALSE, svg |-> d, threw |-> FALSE]

\* embedMarkers(inlineSvg)
EmbedMarkers ==
    /\ input.fn = "embedMarkers"
    /\ ~output.done
    /\ LET r == embedMarkers(input.svg)
       IN  output' = [done |-> TRUE, svg |-> r.svg, threw |-> r.threw]
    /\ UNCHANGED input
    /\ UNCHANGED <<flatVars, texVars, graphVars, exportVars, labelVars>>

NextMarkers == EmbedMarkers

InitMarkers == MarkersFresh /\ FlatIdle /\ TexIdle /\ GraphIdle /\ ExportIdle /\ LabelIdle

SpecMarkers == InitMarkers /\ [][NextMarkers]_vars

-----------------------------------------------------------------------------
(* C14 and C20 *)

Embedded == input.fn = "embedMarkers" /\ output.done /\ ~output.threw

\* the marked line before and after, and the glyphs appended to the root
LineBefore == input.svg.kids[2]

LineAfter == output.svg.kids[2]

Glyphs == SubSeq(output.svg.kids, 3, Len(output.svg.kids))

\* the direction of the line as drawn, and its cosine and sine
Along == <<LineBefore.geo[3] - LineBefore.geo[1], LineBefore.geo[4] - LineBefore.geo[2]>>

Direction == CosSin(Along[2], Along[1])

\* how far the second end has moved, as a vector from its new place to its old
EndMoved == <<LineBefore.geo[3] - LineAfter.geo[3], LineBefore.geo[4] - LineAfter.geo[4]>>

\* what C14 says of the line and its arrowhead
EndMarkerEmbedded ==
    /\ LineAfter.geo[1] = LineBefore.geo[1]
    /\ LineAfter.geo[2] = LineBefore.geo[2]
    /\ EndMoved[1] * EndMoved[1] + EndMoved[2] * EndMoved[2]
           = (10 * TrimPixels) * (10 * TrimPixels)
    /\ EndMoved[1] * Along[2] - EndMoved[2] * Along[1] = 0
    /\ EndMoved[1] * Along[1] + EndMoved[2] * Along[2] > 0
    /\ Len(Glyphs) = 1
    /\ Glyphs[1].tag = "path"
    /\ Glyphs[1].tf.rotate = Direction
    /\ Glyphs[1].tf.translate
           = MarkerTransform(LineBefore.geo[3], LineBefore.geo[4], Direction,
                             ArrowMarker.geo).translate
    /\ LineBefore.geo = <<0, 0, 100, 0>> =>
           /\ LineAfter.geo[3] = 60
           /\ Glyphs[1].tf.rotate = <<1000, 0>>

\* C14 as stated: for a line with a marker-end reference embedMarkers leaves
\* (x1,y1) unchanged, moves (x2,y2) toward (x1,y1) by exactly trimPixels along
\* the line, and appends one arrowhead rotated by the line's direction and
\* positioned from the untrimmed end; the line (0,0)-(10,0) ends at x2 = 6
\* with one path with rotate(0).
C14_EndMarkerOfEveryLine ==
    Embedded /\ LineBefore.me # NoAttr => EndMarkerEmbedded

\* C14, amended: the same, for a line of non-zero length that carries a
\* marker-end reference and no marker-start reference.
C14_EndMarkerOfLineWithoutStart ==
    Embedded /\ LineBefore.me # NoAttr /\ LineBefore.ms = NoAttr
             /\ Along # <<0, 0>> => EndMarkerEmbedded

\* the line (0,0)-(10,0) with an end marker, embedded: it ends at x2 = 6 and
\* one glyph with rotate(0) is appended
C14_Witness ==
    /\ Embedded
    /\ LineBefore.geo = <<0, 0, 100, 0>>
    /\ LineBefore.me = "url(#m)" /\ LineBefore.ms = NoAttr
    /\ LineAfter.geo = <<0, 0, 60, 0>>
    /\ Len(Glyphs) = 1
    /\ Glyphs[1].tf.rotate = <<1000, 0>>

\* C20: for a line with both a marker-start and a marker-end reference, of
\* any length, the start arrowhead is rotated exactly 180 degrees from the end
\* arrowhead, its angle being the reverse of the line's original direction,
\* and after both trims the line still points in its original direction.
C20_StartOppositeEnd ==
    Embedded /\ LineBefore.me # NoAttr /\ LineBefore.ms # NoAttr
             /\ Along # <<0, 0>> =>
        /\ Len(Glyphs) = 2
        /\ Glyphs[2].tf.rotate = QuarterTurns(Glyphs[1].tf.rotate, 2)
        /\ Glyphs[2].tf.rotate = QuarterTurns(Direction, 2)
        /\ CosSin(LineAfter.geo[4] - LineAfter.geo[2],
                  LineAfter.geo[3] - LineAfter.geo[1]) = Direction
        /\ <<LineAfter.geo[3] - LineAfter.geo[1],
             LineAfter.geo[4] - LineAfter.geo[2]>> # <<0, 0>>


-----------------------------------------------------------------------------
(* findLineEndpoints on its own: a direction vector and a viewport *)

Vectors == { Pt(x, y) : x \in -MaxVector..MaxVector, y \in -MaxVector..MaxVector }

\* minX and minY of a viewport
Corners == -2..1

EndpointsFresh ==
    /\ \E v \in Vectors, minX \in Corners, minY \in Corners,
          width \in 0..MaxExtent, height \in 0..MaxExtent :
         input = [fn |-> "findLineEndpoints", v |-> v, minX |-> minX, minY |-> minY,
                  width |-> width, height |-> height]
    /\ output = [done |-> FALSE, endpoints |-> <<>>]

\* const endpoints = this.findLineEndpoints(v, minX, minY, width, height)
FindLineEndpoints ==
    /\ input.fn = "findLineEndpoints"
    /\ ~output.done
    /\ output' = [done |-> TRUE,
                  endpoints |-> findLineEndpoints(input.v, input.minX, input.minY,
                                                  input.width, input.height)]
    /\ UNCHANGED input
    /\ UNCHANGED <<flatVars, texVars, graphVars, exportVars, labelVars>>

NextEndpoints == FindLineEndpoints

InitEndpoints == EndpointsFresh /\ FlatIdle /\ TexIdle /\ GraphIdle /\ ExportIdle /\ LabelIdle

SpecEndpoints == InitEndpoints /\ [][NextEndpoints]_vars

-----------------------------------------------------------------------------
(* C15 - C17 *)

Found == input.fn = "findLineEndpoints" /\ output.done

\* C15: for every direction vector with x = 0 and every viewport,
\* findLineEndpoints returns exactly the two points (0, minY) and
\* (0, minY + height).
C15_VerticalEndpoints ==
    Found /\ input.v.x = 0 =>
        /\ Len(output.endpoints) = 2
        /\ output.endpoints[1] = <<Num(0), Num(input.minY)>>
        /\ output.endpoints[2] = <<Num(0), Num(input.minY + input.height)>>

\* C16: for every direction vector with y = 0 and every viewport with
\* positive width, findLineEndpoints returns exactly the two points (minX, 0)
\* and (minX + width, 0), in that order.
C16_HorizontalEndpoints ==
    Found /\ input.v.y = 0 /\ input.width > 0 =>
        /\ Len(output.endpoints) = 2
        /\ output.endpoints[1] = <<Num(input.minX), Num(0)>>
        /\ output.endpoints[2] = <<Num(input.minX + input.width), Num(0)>>

\* C15, amended: for every direction vector with x = 0 and y # 0 and every
\* viewport, findLineEndpoints returns exactly the two points (0, minY) and
\* (0, minY + height), in that order.
C15_VerticalEndpointsOfNonZero ==
    Found /\ input.v.x = 0 /\ input.v.y # 0 =>
        /\ Len(output.endpoints) = 2
        /\ output.endpoints[1] = <<Num(0), Num(input.minY)>>
        /\ output.endpoints[2] = <<Num(0), Num(input.minY + input.height)>>

\* a vertical direction and a viewport whose left edge is the y axis, where
\* the slope computation multiplies Infinity by 0
C15_Witness ==
    /\ Found
    /\ input.v.x = 0 /\ input.v.y # 0
    /\ input.minX = 0 /\ input.minY < 0 /\ input.height > 1
    /\ output.endpoints = << <<Num(0), Num(input.minY)>>,
                             <<Num(0), Num(input.minY + input.height)>> >>

\* C16, amended: for every direction vector with y = 0 and x # 0 and every
\* viewport with positive width, findLineEndpoints returns exactly the two
\* points (minX, 0) and (minX + width, 0), in that order, whether or not the
\* slope computation also produced those crossings.
C16_HorizontalEndpointsOfNonZero ==
    Found /\ input.v.y = 0 /\ input.v.x # 0 /\ input.width > 0 =>
        /\ Len(output.endpoints) = 2
        /\ output.endpoints[1] = <<Num(input.minX), Num(0)>>
        /\ output.endpoints[2] = <<Num(input.minX + input.width), Num(0)>>

\* a horizontal direction and a viewport that the x axis crosses and whose
\* left edge is the y axis: the crossings are produced twice
C16_Witness ==
    /\ Found
    /\ input.v.y = 0 /\ input.v.x # 0
    /\ input.minX = 0 /\ input.width > 0
    /\ input.minY < 0 /\ 0 < input.minY + input.height
    /\ output.endpoints = << <<Num(0), Num(0)>>, <<Num(input.width), Num(0)>> >>

\* the origin lies in the interior of the viewport
OriginInside ==
    /\ input.minX < 0 /\ 0 < input.minX + input.width
    /\ input.minY < 0 /\ 0 < input.minY + input.height

\* p lies on the line through the origin with direction v
OnLine(p) == Times(p[2], Num(input.v.x)) = Times(p[1], Num(input.v.y))

\* p lies on the boundary of the viewport
OnBoundary(p) ==
    \/ /\ p[1] \in {Num(input.minX), Num(input.minX + input.width)}
       /\ LessEq(Num(input.minY), p[2])
       /\ LessEq(p[2], Num(input.minY + input.height))
    \/ /\ p[2] \in {Num(input.minY), Num(input.minY + input.height)}
       /\ LessEq(Num(input.minX), p[1])
       /\ LessEq(p[1], Num(input.minX + input.width))

\* p is a corner of the viewport
IsCorner(p) ==
    /\ p[1] \in {Num(input.minX), Num(input.minX + input.width)}
    /\ p[2] \in {Num(input.minY), Num(input.minY + input.height)}

\* C17: for a viewport with the origin in its interior and a direction vector
\* with both components non-zero, through corners or not, findLineEndpoints
\* returns two distinct points, each on the line through the origin with
\* that direction and each on the boundary of the viewport.
C17_ClippedEndpoints ==
    Found /\ OriginInside /\ input.v.x # 0 /\ input.v.y # 0 =>
        /\ Len(output.endpoints) = 2
        /\ output.endpoints[1] # output.endpoints[2]
        /\ \A i \in 1..2 : OnLine(output.endpoints[i]) /\ OnBoundary(output.endpoints[i])

\* a falling diagonal through two corners of a viewport around the origin:
\* the two corners are returned
C17_Witness ==
    /\ Found /\ OriginInside
    /\ input.v.x # 0 /\ input.v.y = -input.v.x
    /\ Len(output.endpoints) = 2
    /\ IsCorner(output.endpoints[1]) /\ IsCorner(output.endpoints[2])
    /\ output.endpoints[1] # output.endpoints[2]


-----------------------------------------------------------------------------
(* pointWhereTwoLinesIntersect of util/math.ts *)

pointWhereTwoLinesIntersect_GeneralOnly(p1, p2, p3, p4) ==
    LET slope1 == Over(Num(p2.y - p1.y), Num(p2.x - p1.x))
        slope2 == Over(Num(p4.y - p3.y), Num(p4.x - p3.x))
        b1 == Minus(Num(p2.y), Times(Num(p2.x), slope1))
        b2 == Minus(Num(p4.y), Times(Num(p4.x), slope2))
        x == Over(Minus(b2, b1), Minus(slope1, slope2))
    IN  [x |-> x, y |-> Plus(Num(p1.y), Times(slope1, Minus(x, Num(p1.x))))]

\* The points have whole coordinates; the point returned has exact ones.
\* The x of line 91 is overwritten when a slope is infinite and is computed
\* here only where it is used, with both slopes finite.
pointWhereTwoLinesIntersect(p1, p2, p3, p4) ==
    LET slope1 == Over(Num(p2.y - p1.y), Num(p2.x - p1.x))
        slope2 == Over(Num(p4.y - p3.y), Num(p4.x - p3.x))
        b1 == Minus(Num(p2.y), Times(Num(p2.x), slope1))
        b2 == Minus(Num(p4.y), Times(Num(p4.x), slope2))
        x == Over(Minus(b2, b1), Minus(slope1, slope2))
    IN  IF ~isFinite(slope1)
        THEN [x |-> Num(p1.x),
              y |-> Plus(Num(p3.y), Times(slope2, Minus(Num(p1.x), Num(p3.x))))]
        ELSE IF ~isFinite(slope2)
        THEN [x |-> Num(p3.x),
              y |-> Plus(Num(p1.y), Times(slope1, Minus(Num(p3.x), Num(p1.x))))]
        ELSE [x |-> x,
              y |-> Plus(Num(p1.y), Times(slope1, Minus(x, Num(p1.x))))]

Points == { Pt(x, y) : x \in 0..MaxPoint, y \in 0..MaxPoint }

IntersectFresh ==
    /\ \E p1 \in Points, p2 \in Points, p3 \in Points, p4 \in Points :
         input = [fn |-> "pointWhereTwoLinesIntersect",
                  p1 |-> p1, p2 |-> p2, p3 |-> p3, p4 |-> p4]
    /\ output = [done |-> FALSE, point |-> [x |-> Num(0), y |-> Num(0)]]

\* const p = pointWhereTwoLinesIntersect(p1, p2, p3, p4)
PointWhereTwoLinesIntersect ==
    /\ input.fn = "pointWhereTwoLinesIntersect"
    /\ ~output.done
    /\ output' = [done |-> TRUE,
                  point |-> pointWhereTwoLinesIntersect(input.p1, input.p2,
                                                        input.p3, input.p4)]
    /\ UNCHANGED input
    /\ UNCHANGED <<flatVars, texVars, graphVars, exportVars, labelVars>>

NextIntersect == PointWhereTwoLinesIntersect

InitIntersect == IntersectFresh /\ FlatIdle /\ TexIdle /\ GraphIdle /\ ExportIdle /\ LabelIdle

SpecIntersect == InitIntersect /\ [][NextIntersect]_vars

-----------------------------------------------------------------------------
(* C18 *)

Intersected == input.fn = "pointWhereTwoLinesIntersect" /\ output.done

\* the lines through a, b and through c, d have the same direction
Parallel(a, b, c, d) ==
    (b.x - a.x) * (d.y - c.y) = (b.y - a.y) * (d.x - c.x)

\* q, with exact finite coordinates, lies on the line through a and b
Collinear(a, b, q) ==
    /\ isFinite(q.x) /\ isFinite(q.y)
    /\ Times(Num(b.x - a.x), Minus(q.y, Num(a.y)))
         = Times(Num(b.y - a.y), Minus(q.x, Num(a.x)))

\* C18: for all points p1 # p2 and p3 # p4 that define two non-parallel
\* lines, exactly one of which may be vertical, pointWhereTwoLinesIntersect
\* returns a point collinear with p1, p2 and collinear with p3, p4.
C18_IntersectionOnBothLines ==
    ( /\ Intersected
      /\ input.p1 # input.p2 /\ input.p3 # input.p4
      /\ ~Parallel(input.p1, input.p2, input.p3, input.p4) )
    => /\ Collinear(input.p1, input.p2, output.point)
       /\ Collinear(input.p3, input.p4, output.point)

\* a vertical first line crossed by an oblique second line between two
\* whole ordinates
C18_Witness ==
    /\ Intersected
    /\ input.p1 # input.p2 /\ input.p3 # input.p4
    /\ input.p1.x = input.p2.x /\ input.p3.x # input.p4.x
    /\ input.p3.y # input.p4.y
    /\ output.point.x = Num(input.p1.x)
    /\ output.point.y[2] = 2
    /\ Collinear(input.p3, input.p4, output.point)


-----------------------------------------------------------------------------
(* C23 *)

OriginWithin ==
    /\ input.minX <= 0 /\ 0 <= input.minX + input.width
    /\ input.minY <= 0 /\ 0 <= input.minY + input.height

-----------------------------------------------------------------------------
(* C24 *)

RectPositions(inner) == {i \in 1..Len(inner) : inner[i].kind = "rect"}

TreePositions(inner) == {i \in 1..Len(inner) : inner[i].kind = "tree"}

\* C24: after any sequence of drawBackground(), drawBackground(true) and
\* replace(s) calls the inner group holds exactly one typeset tree, the
\* current rendered tree, and at most one background rectangle, which
\* comes before the tree.
C24_OneTreeAtMostOneRectangle ==
    /\ Cardinality(TreePositions(lblInner)) = 1
    /\ TreeIds(lblInner) = {lblRendered}
    /\ Cardinality(RectPositions(lblInner)) <= 1
    /\ \A i \in RectPositions(lblInner), j \in TreePositions(lblInner) : i < j

-----------------------------------------------------------------------------
(* C25 *)

\* C25: after the start or end point passed to arrow() is changed and
\* update() is invoked on the returned line, the line's endpoints are the
\* plot transform of the current points and the arrowhead's transform is
\* anchored at the current end point with the current direction.
C25_ArrowFollowsUpdate ==
    (scene.fn = "arrow" /\ gLast.op = "node") =>
        /\ gNode = FreshLine
        /\ gDep = arrow_head(points[1], points[2])

-----------------------------------------------------------------------------
(* C22 *)

\* the k successive siblings from child i of the element at path p on
Siblings(p, i, k) == [j \in 1..k |-> p \o <<i + j - 1>>]

Occurrences(matches, m) == Cardinality({j \in 1..Len(matches) : matches[j] = m})

\* the successive siblings from position i on deep-match the candidate's
\* children one by one, in order, up to the candidate's last child
FullRun(kids, i, subtree) ==
    /\ i + Len(subtree.kids) - 1 <= Len(kids)
    /\ \A j \in 1..Len(subtree.kids) : nodeMatches(kids[i + j - 1], subtree.kids[j])

\* the sibling positions of a tree: <<p, i>> for child i of the element at p
SiblingPositions(tree) ==
    { <<p, i>> : p \in ElementPaths(tree), i \in 1..MaxTexNodes }
        \cap { q \in ElementPaths(tree) \X (1..MaxTexNodes) :
                 q[2] <= Len(NodeAt(tree, q[1]).kids) }

\* C22: findSubtreeMatches reports the run of siblings that starts at a
\* sibling position iff the successive siblings from there deep-match the
\* candidate's children one by one in order and the run consumes the whole
\* child list; a run that stops before the candidate's last child is never
\* reported, and a reported run has exactly as many elements as the
\* candidate has children.  (A single element is also reported, once, when
\* it deep-matches the candidate's root.)
C22_RunReportedIffWholeChildList ==
    texCall.active =>
        LET subtree == texCall.match
            n == Len(subtree.kids)
            matches == texCall.matches
        IN  /\ \A q \in SiblingPositions(rendered) :
                 LET kids == NodeAt(rendered, q[1]).kids
                 IN  \A k \in 1..(Len(kids) - q[2] + 1) :
                       Occurrences(matches, Siblings(q[1], q[2], k))
                         = (IF k = 1 /\ nodeMatches(kids[q[2]], subtree) THEN 1 ELSE 0)
                           + (IF k = n /\ FullRun(kids, q[2], subtree) THEN 1 ELSE 0)
            /\ Occurrences(matches, <<>>)
                 = (IF n = 0 THEN Cardinality(SiblingPositions(rendered)) ELSE 0)
            /\ \A j \in 1..Len(matches) :
                 \/ matches[j] = <<>>
                 \/ \E q \in SiblingPositions(rendered) :
                      \E k \in 1..(Len(NodeAt(rendered, q[1]).kids) - q[2] + 1) :
                        matches[j] = Siblings(q[1], q[2], k)

\* a candidate with two children on a tree with two such siblings: the run
\* from the first is reported, the run from the second stops after one
\* element, the siblings being exhausted, and is not
C22_Witness ==
    /\ texCall.active
    /\ Len(texCall.match.kids) = 2
    /\ Len(rendered.kids) = 2
    /\ FullRun(rendered.kids, 1, texCall.match)
    /\ nodeMatches(rendered.kids[2], texCall.match.kids[1])
    /\ texCall.matches = << Siblings(<<>>, 1, 2) >>

-----------------------------------------------------------------------------
(* C26 *)

\* C26: every match that findSubtreeMatches / getMatchesByTex returns is a
\* non-empty sequence of elements, for every candidate, one whose root has
\* no children included; so a setColor call that does not raise recolours
\* at least one element.
C26_MatchesNonEmpty ==
    texCall.active =>
        /\ \A j \in 1..Len(texCall.matches) : texCall.matches[j] # <<>>
        /\ texCall.err = NoError =>
              \E q \in DOMAIN texFill :
                 /\ q \in RangeOf(texCall.matches[texCall.index + 1])
                 /\ texFill[q] = texCall.color

-----------------------------------------------------------------------------
(* embedMarkers on its own: a drawing with the marker and one marked path *)

\* where the marked paths start, in tenths of a pixel: far enough from the
\* axes for every coordinate of the path data to be unsigned
PathStart == <<200, 200>>

\* <path d="M x1,y1 L x2,y2"> of one to MaxLineLength pixels along each
\* direction, with a marker at either end or at both
MarkedPaths ==
    { WithMarkers(WithGeo(El("path", NoAttr, NoAttr, <<>>),
                          <<PathStart[1], PathStart[2],
                            PathStart[1] + k * d[1], PathStart[2] + k * d[2]>>), ms, me) :
        k \in 1..MaxLineLength, d \in Directions,
        ms \in MarkerValues, me \in MarkerValues }

MarkedPathDocs == { El("svg", NoAttr, NoAttr, <<ArrowDefs, l>>) : l \in MarkedPaths }

PathMarkersFresh ==
    /\ \E d \in MarkedPathDocs :
         /\ input = [fn |-> "embedMarkers", svg |-> d]
         /\ output = [done |-> FALSE, svg |-> d, threw |-> FALSE]

InitPathMarkers == PathMarkersFresh /\ FlatIdle /\ TexIdle /\ GraphIdle /\ ExportIdle /\ LabelIdle

SpecPathMarkers == InitPathMarkers /\ [][NextMarkers]_vars

-----------------------------------------------------------------------------
(* C21 *)

\* the glyph appended for the end marker and for the start marker of the
\* marked path; end markers are processed first
EndGlyph == Glyphs[1]

StartGlyph == Glyphs[IF LineBefore.me # NoAttr THEN 2 ELSE 1]

\* C21: for a path with a start or end marker, embedMarkers takes both the
\* anchor point and the tangent angle of the arrowhead from the leading
\* (start) or trailing (end) coordinate pairs of the path data, so that
\* paths ending in different directions get differently rotated arrowheads.
C21_PathArrowheadFollowsPath ==
    (Embedded /\ LineBefore.tag = "path") =>
        /\ LineBefore.me # NoAttr =>
              /\ EndGlyph.tf.rotate = Direction
              /\ EndGlyph.tf.translate
                    = MarkerTransform(LineBefore.geo[3], LineBefore.geo[4], Direction,
                                      ArrowMarker.geo).translate
        /\ LineBefore.ms # NoAttr =>
              /\ StartGlyph.tf.rotate = QuarterTurns(Direction, 2)
              /\ StartGlyph.tf.translate
                    = MarkerTransform(LineBefore.geo[1], LineBefore.geo[2],
                                      QuarterTurns(Direction, 2), ArrowMarker.geo).translate

=============================================================================
